---------------------------- MODULE Spec2Model ----------------------------
(***************************************************************************)
(* A model of raycoon: the catalog store and the subscription              *)
(* synchronizer (SpecCatalog), the tunnel daemon with its parent-side      *)
(* Enable / Disable / CleanupIfNeeded (SpecTun) and the engine supervisor  *)
(* (SpecXray), the subscription fetcher (SpecFetch, SpecFetchLive) and      *)
(* decoder (SpecDecode), the batch update of due groups (SpecDue), the     *)
(* latency tester (SpecBatch), the supervisor under concurrent callers     *)
(* (SpecSup), the mode choice of connect (SpecConnect), the paths of the    *)
(* program's files under sudo (SpecPaths), the URI parsers and encoders    *)
(* (SpecParse), the daemon's setup command by command (SpecSetup), the     *)
(* tunnel with a daemon that keeps running (SpecTunLive), the ports of the *)
(* main engine and of the HTTP probes (SpecPorts), the query for the due   *)
(* groups on clocks of several zones (SpecGetDue) and the engine's exit    *)
(* watchers and PID file across processes (SpecWatch).  Each               *)
(* specification moves its own variables and leaves the others at their    *)
(* initial values.                                                         *)
(***************************************************************************)
EXTENDS Integers, Sequences, FiniteSets, TLC

VARIABLES db, upd, last,
          keepHome, sfile, stop, routes, dns, ifaces, dmn, en, dis, tret,
          eng, pidFile, x, st, w, sp, xret,
          ft, dc, due, tb, sup, cn,
          pa, pr, rs,
          hp, gq, xw

catVars == <<db, upd, last>>
tunVars == <<keepHome, sfile, stop, routes, dns, ifaces, dmn, en, dis, tret>>
xrayVars == <<eng, pidFile, x, st, w, sp, xret>>
vars == <<db, upd, last,
          keepHome, sfile, stop, routes, dns, ifaces, dmn, en, dis, tret,
          eng, pidFile, x, st, w, sp, xret,
          ft, dc, due, tb, sup, cn,
          pa, pr, rs,
          hp, gq, xw>>

\* A step of one part of the program leaves the other parts as they are.
CatalogOnly == UNCHANGED <<tunVars, xrayVars, ft, dc, due, tb, sup, cn, pa, pr, rs, hp, gq, xw>>
TunnelOnly == UNCHANGED <<catVars, xrayVars, ft, dc, due, tb, sup, cn, pa, pr, rs, hp, gq, xw>>
XrayOnly == UNCHANGED <<catVars, tunVars, ft, dc, due, tb, sup, cn, pa, pr, rs, hp, gq, xw>>
FetchOnly == UNCHANGED <<catVars, tunVars, xrayVars, dc, due, tb, sup, cn, pa, pr, rs, hp, gq, xw>>
DecodeOnly == UNCHANGED <<catVars, tunVars, xrayVars, ft, due, tb, sup, cn, pa, pr, rs, hp, gq, xw>>
DueOnly == UNCHANGED <<upd, last, tunVars, xrayVars, ft, dc, tb, sup, cn, pa, pr, rs, hp, gq, xw>>
BatchOnly == UNCHANGED <<catVars, tunVars, xrayVars, ft, dc, due, sup, cn, pa, pr, rs, hp, gq, xw>>
SupOnly == UNCHANGED <<catVars, tunVars, xrayVars, ft, dc, due, tb, cn, pa, pr, rs, hp, gq, xw>>
ConnectOnly == UNCHANGED <<catVars, tunVars, xrayVars, ft, dc, due, tb, sup, pa, pr, rs, hp, gq, xw>>
PathsOnly == UNCHANGED <<catVars, tunVars, xrayVars, ft, dc, due, tb, sup, cn, pr, rs, hp, gq, xw>>
ParseOnly == UNCHANGED <<catVars, tunVars, xrayVars, ft, dc, due, tb, sup, cn, pa, rs, hp, gq, xw>>
SetupOnly == UNCHANGED <<catVars, tunVars, xrayVars, ft, dc, due, tb, sup, cn, pa, pr, hp, gq, xw>>
PortsOnly == UNCHANGED <<catVars, tunVars, xrayVars, ft, dc, due, tb, sup, cn, pa, pr, rs, gq, xw>>
QueryOnly == UNCHANGED <<catVars, tunVars, xrayVars, ft, dc, due, tb, sup, cn, pa, pr, rs, hp, xw>>
WatchOnly == UNCHANGED <<catVars, tunVars, xrayVars, ft, dc, due, tb, sup, cn, pa, pr, rs, hp, gq>>

---------------------------------------------------------------------------
(* Bounds *)

MaxGroupId == 2
MaxConfigId == 3
MaxFeedLen == 2
MaxClock == 2
\* Engine processes launched in one behaviour.
MaxPid == 2
\* Largest maxRetries a fetcher is built with.
MaxRetries == 3
\* Pieces in a subscription body.
MaxBody == 4
\* Subscription groups in the store when a batch update starts.
MaxDueGroups == 2
\* Endpoints in a latency batch, distinct latencies, and workers.
MaxBatch == 2
MaxLatency == 2
MaxWorkers == 2
\* Concurrent callers of the supervisor.
MaxCallers == 2

---------------------------------------------------------------------------
(* Catalog store: rows and statements (package sqlite) *)

GlobalGroupId == 1

NoTime == 0

GroupNames == {"global", "work"}

\* URIs a feed line or `config add` may carry. The hy2 scheme is accepted by
\* the decoder but its parser is a stub that always fails.
URIs == {"vless://a", "hy2://c"}

Intervals == {1}

\* Registry.Parse: auto-detect by scheme, then the protocol's parser. The
\* parsers that succeed keep the original URI in the config.
Parse(uri) ==
    IF uri = "vless://a"
    THEN [ok |-> TRUE, uri |-> uri]
    ELSE [ok |-> FALSE, uri |-> uri]

\* defaultData of the migrations: the global group, id 1, no subscription.
GlobalGroup ==
    [name |-> "global", isGlobal |-> TRUE, url |-> FALSE, autoUpdate |-> TRUE,
     interval |-> 1, lastUpdated |-> NoTime, nextUpdate |-> NoTime]

InitDB ==
    [groups |-> (GlobalGroupId :> GlobalGroup),
     configs |-> << >>,
     groupSeq |-> GlobalGroupId,
     configSeq |-> 0,
     active |-> 0]

GroupIds(d) == DOMAIN d.groups
ConfigIds(d) == DOMAIN d.configs

ConfigsOf(d, gid) == {c \in ConfigIds(d) : d.configs[c].group = gid}
SubConfigsOf(d, gid) == {c \in ConfigsOf(d, gid) : d.configs[c].fromSub}
UserConfigsOf(d, gid) == {c \in ConfigsOf(d, gid) : ~d.configs[c].fromSub}

Restrict(f, S) == [e \in S |-> f[e]]

\* time.Now() as UpdateGroup reads it: later than every stamp in the store.
Now(d) ==
    LET stamps == {d.groups[i].lastUpdated : i \in GroupIds(d)}
    IN  1 + CHOOSE t \in stamps : \A u \in stamps : u <= t

\* createGroup: INSERT INTO groups; name is UNIQUE, id is AUTOINCREMENT and
\* is_global is whatever the caller put in the struct.
createGroup(d, g) ==
    IF \E i \in GroupIds(d) : d.groups[i].name = g.name
    THEN [err |-> TRUE, db |-> d]
    ELSE [err |-> FALSE,
          db |-> [d EXCEPT !.groups = (d.groupSeq + 1 :> g) @@ d.groups,
                           !.groupSeq = d.groupSeq + 1]]

\* updateGroup: UPDATE groups SET name.., last_updated, next_update WHERE id;
\* is_global is not in the SET list, a missing row is no error.
updateGroup(d, id, g) ==
    IF id \in GroupIds(d)
    THEN [err |-> FALSE,
          db |-> [d EXCEPT !.groups[id] = [g EXCEPT !.isGlobal = d.groups[id].isGlobal]]]
    ELSE [err |-> FALSE, db |-> d]

\* deleteGroup: refuses the global group; ON DELETE CASCADE removes the
\* group's configs, which the active_connection foreign key (no cascade)
\* refuses when the active config is among them.
deleteGroupNoGlobalCheck(d, id) ==
    IF id \notin GroupIds(d) THEN [err |-> TRUE, db |-> d]
    ELSE IF d.active \in ConfigsOf(d, id) THEN [err |-> TRUE, db |-> d]
    ELSE [err |-> FALSE,
          db |-> [d EXCEPT !.groups = Restrict(d.groups, GroupIds(d) \ {id}),
                           !.configs = Restrict(d.configs, ConfigIds(d) \ ConfigsOf(d, id))]]

deleteGroup(d, id) ==
    IF id \notin GroupIds(d) THEN [err |-> TRUE, db |-> d]
    ELSE IF d.groups[id].isGlobal THEN [err |-> TRUE, db |-> d]
    ELSE IF d.active \in ConfigsOf(d, id) THEN [err |-> TRUE, db |-> d]
    ELSE [err |-> FALSE,
          db |-> [d EXCEPT !.groups = Restrict(d.groups, GroupIds(d) \ {id}),
                           !.configs = Restrict(d.configs, ConfigIds(d) \ ConfigsOf(d, id))]]

\* createConfig: INSERT INTO configs; group_id REFERENCES groups(id).
createConfig(d, c) ==
    IF c.group \notin GroupIds(d)
    THEN [err |-> TRUE, db |-> d]
    ELSE [err |-> FALSE,
          db |-> [d EXCEPT !.configs = (d.configSeq + 1 :> c) @@ d.configs,
                           !.configSeq = d.configSeq + 1]]

\* A DELETE that no foreign key stops.
deleteConfigUnchecked(d, id) ==
    [err |-> FALSE,
     db |-> [d EXCEPT !.configs = Restrict(d.configs, ConfigIds(d) \ {id})]]

\* deleteConfig: DELETE FROM configs WHERE id; refused by the
\* active_connection foreign key when the row is the active config.
deleteConfig(d, id) ==
    IF id \in ConfigIds(d) /\ d.active = id
    THEN [err |-> TRUE, db |-> d]
    ELSE [err |-> FALSE,
          db |-> [d EXCEPT !.configs = Restrict(d.configs, ConfigIds(d) \ {id})]]

\* deleteConfigsByGroup: DELETE FROM configs WHERE group_id = ?
\* [AND from_subscription = 1].
deleteConfigsByGroupAll(d, gid, fromSubscriptionOnly) ==
    LET gone == ConfigsOf(d, gid)
    IN  IF d.active \in gone
        THEN [err |-> TRUE, db |-> d]
        ELSE [err |-> FALSE,
              db |-> [d EXCEPT !.configs = Restrict(d.configs, ConfigIds(d) \ gone)]]

deleteConfigsByGroup(d, gid, fromSubscriptionOnly) ==
    LET gone == IF fromSubscriptionOnly THEN SubConfigsOf(d, gid) ELSE ConfigsOf(d, gid)
    IN  IF d.active \in gone
        THEN [err |-> TRUE, db |-> d]
        ELSE [err |-> FALSE,
              db |-> [d EXCEPT !.configs = Restrict(d.configs, ConfigIds(d) \ gone)]]

\* setActiveConnection: upsert of the singleton row; config_id REFERENCES
\* configs(id).
setActiveConnection(d, cid) ==
    IF cid \in ConfigIds(d)
    THEN [err |-> FALSE, db |-> [d EXCEPT !.active = cid]]
    ELSE [err |-> TRUE, db |-> d]

clearActiveConnection(d) == [err |-> FALSE, db |-> [d EXCEPT !.active = 0]]

---------------------------------------------------------------------------
(* Subscription synchronizer: Manager.UpdateGroup as a process *)

Idle ==
    [pc |-> "idle", gid |-> 0, group |-> GlobalGroup, uris |-> << >>, i |-> 0,
     tx |-> InitDB, old |-> {}, added |-> 0, failed |-> 0, errors |-> 0]

\* What the last UpdateGroup or DeleteGroup call returned; any other
\* operation leaves NoOp.
NoOp == [op |-> "none", id |-> 0, err |-> FALSE]

\* The handle UpdateGroup runs its statements on after BeginTx: the Tx, whose
\* changes stay in the transaction until Commit.
UpdateGroupHandleDB == "db"

UpdateGroupHandle == "tx"

\* The feeds Decode can return: non-empty sequences of recognised URIs.
Feeds == UNION {[1..n -> URIs] : n \in 1..MaxFeedLen}

\* The transaction holds the database's write lock from its first write to
\* Commit or Rollback; other connections' writes wait or fail meanwhile.
Locked == upd.pc \in {"insert", "update", "commit"}

\* The rows a statement of the running UpdateGroup sees.
View == IF UpdateGroupHandle = "tx" /\ Locked THEN upd.tx ELSE db

\* A statement of UpdateGroup left the rows as d; u is the process after it.
Stmt(u, d) ==
    IF UpdateGroupHandle = "tx"
    THEN upd' = [u EXCEPT !.tx = d] /\ db' = db
    ELSE upd' = u /\ db' = d

\* UpdateGroup returns: an error (the deferred Rollback drops the
\* transaction), or the result after Commit. TotalURIs is len(uris) (line
\* 82), errors stands for len(result.Errors); Removed is assigned nowhere
\* in UpdateGroup and keeps the zero value of the struct (lines 56-60);
\* uris is the decoded feed a result counts, an error returns no result.
Return(err) ==
    /\ upd' = Idle
    /\ last' = [op |-> "UpdateGroup", id |-> upd.gid, err |-> err, pc |-> upd.pc,
                total |-> Len(upd.uris), old |-> upd.old,
                added |-> upd.added, failed |-> upd.failed,
                errors |-> upd.errors, removed |-> 0,
                uris |-> IF err THEN << >> ELSE upd.uris,
                stamp |-> upd.group.lastUpdated]

\* GetGroup and the subscription-URL check (lines 46-54).
UpdStart(gid) ==
    /\ CatalogOnly
    /\ upd.pc = "idle"
    /\ Now(db) <= MaxClock
    /\ db' = db
    /\ IF gid \in GroupIds(db) /\ db.groups[gid].url
       THEN /\ upd' = [Idle EXCEPT !.pc = "fetch", !.gid = gid, !.group = db.groups[gid]]
            /\ last' = last
       ELSE /\ upd' = Idle
            /\ last' = [op |-> "UpdateGroup", id |-> gid, err |-> TRUE, pc |-> "idle",
                        total |-> 0, old |-> {}, added |-> 0, failed |-> 0,
                        errors |-> 0, removed |-> 0, uris |-> << >>,
                        stamp |-> NoTime]

\* Fetch, Decode or BeginTx (lines 63-88) fails and UpdateGroup returns
\* before any statement has run.
UpdFetchFail ==
    /\ CatalogOnly
    /\ upd.pc = "fetch"
    /\ db' = db
    /\ Return(TRUE)

\* Fetch and Decode give the feed's URIs, then BeginTx and
\* tx.DeleteConfigsByGroup(groupID, true) (lines 85-94), the transaction's
\* first write, which takes the write lock.
UpdDelete ==
    /\ CatalogOnly
    /\ upd.pc = "fetch"
    /\ \E f \in Feeds :
         /\ db.configSeq + Len(f) <= MaxConfigId
         /\ LET r == deleteConfigsByGroup(db, upd.gid, TRUE)
                u == [upd EXCEPT !.uris = f]
            IN  \/ /\ r.err
                   /\ db' = db
                   /\ upd' = Idle
                   /\ last' = [op |-> "UpdateGroup", id |-> upd.gid, err |-> TRUE,
                               pc |-> "delete", total |-> Len(f), old |-> {},
                               added |-> 0, failed |-> 0,
                               errors |-> 0, removed |-> 0, uris |-> << >>,
                               stamp |-> upd.group.lastUpdated]
                \/ /\ ~r.err
                   /\ Stmt([u EXCEPT !.pc = "insert", !.i = 1, !.tx = db,
                                     !.old = SubConfigsOf(db, upd.gid)], r.db)
                   /\ last' = last

\* The loop over the URIs (lines 97-118), from the i-th on, on rows d: a URI
\* that does not parse or whose insert fails counts as failed and the loop
\* goes on, any other is inserted for the group, from_subscription set.
\* Each failure appends one error to result.Errors.
RECURSIVE InsertAll(_, _, _, _)
\* A loop that a URI's failure ends.
RECURSIVE InsertUntilFailure(_, _, _, _)
InsertUntilFailure(d, gid, uris, i) ==
    IF i > Len(uris)
    THEN [db |-> d, added |-> 0, failed |-> 0, errors |-> 0]
    ELSE LET p == Parse(uris[i])
             r == createConfig(d, [group |-> gid, fromSub |-> TRUE, uri |-> p.uri])
         IN  IF ~p.ok \/ r.err
             THEN [db |-> d, added |-> 0, failed |-> 1, errors |-> 1]
             ELSE [InsertUntilFailure(r.db, gid, uris, i + 1) EXCEPT !.added = @ + 1]

InsertAll(d, gid, uris, i) ==
    IF i > Len(uris)
    THEN [db |-> d, added |-> 0, failed |-> 0, errors |-> 0]
    ELSE LET p == Parse(uris[i])
             r == createConfig(d, [group |-> gid, fromSub |-> TRUE, uri |-> p.uri])
             rest == InsertAll(IF p.ok THEN r.db ELSE d, gid, uris, i + 1)
         IN  IF ~p.ok \/ r.err
             THEN [rest EXCEPT !.failed = @ + 1, !.errors = @ + 1]
             ELSE [rest EXCEPT !.added = @ + 1]

\* The loop runs inside the transaction, whose lock keeps every other writer
\* out, and no iteration leaves it early.
UpdInsert ==
    /\ CatalogOnly
    /\ upd.pc = "insert"
    /\ last' = last
    /\ LET r == InsertAll(View, upd.gid, upd.uris, 1)
       IN  Stmt([upd EXCEPT !.pc = "update", !.i = Len(upd.uris) + 1,
                            !.added = r.added, !.failed = r.failed,
                            !.errors = r.errors], r.db)

\* last_updated, next_update and tx.UpdateGroup (lines 121-132).
UpdUpdateGroup ==
    /\ CatalogOnly
    /\ upd.pc = "update"
    /\ LET g == [upd.group EXCEPT
                   !.lastUpdated = Now(View),
                   !.nextUpdate = IF upd.group.autoUpdate
                                  THEN Now(View) + upd.group.interval
                                  ELSE upd.group.nextUpdate]
           r == updateGroup(View, upd.gid, g)
       IN  \/ /\ db' = db
              /\ Return(TRUE)
           \/ /\ Stmt([upd EXCEPT !.pc = "commit"], r.db)
              /\ last' = last

\* tx.Commit (lines 135-139): the transaction's rows become the database's,
\* or the commit fails and the driver rolls the transaction back.
UpdCommit ==
    /\ CatalogOnly
    /\ upd.pc = "commit"
    /\ \/ /\ db' = db
          /\ Return(TRUE)
       \/ /\ db' = IF UpdateGroupHandle = "tx" THEN upd.tx ELSE db
          /\ Return(FALSE)

---------------------------------------------------------------------------
(* Other users of the store, each on a connection of its own *)

\* `group create <name>` (part_008 lines 70-92): IsGlobal is left false.
GroupCreate(name, url, auto, interval) ==
    /\ CatalogOnly
    /\ ~Locked
    /\ db.groupSeq < MaxGroupId
    /\ LET r == createGroup(db, [name |-> name, isGlobal |-> FALSE, url |-> url,
                                 autoUpdate |-> auto, interval |-> interval,
                                 lastUpdated |-> NoTime, nextUpdate |-> NoTime])
       IN  /\ db' = r.db
           /\ last' = NoOp
    /\ upd' = upd

\* Storage.DeleteGroup(id).
DeleteGroup(id) ==
    /\ CatalogOnly
    /\ ~Locked
    /\ LET r == deleteGroup(db, id)
       IN  /\ db' = r.db
           /\ last' = [op |-> "DeleteGroup", id |-> id, err |-> r.err]
    /\ upd' = upd

\* `config add <uri> --group <name>` (part_007 lines 28-83): the config goes
\* to the global group or to the named one, created when missing.
ConfigAdd(uri, gname) ==
    /\ CatalogOnly
    /\ ~Locked
    /\ db.configSeq < MaxConfigId
    /\ Parse(uri).ok
    /\ LET found == {i \in GroupIds(db) : db.groups[i].name = gname}
           g == createGroup(db, [name |-> gname, isGlobal |-> FALSE, url |-> FALSE,
                                 autoUpdate |-> FALSE, interval |-> 1,
                                 lastUpdated |-> NoTime, nextUpdate |-> NoTime])
           d == IF found = {} THEN g.db ELSE db
           gid == IF found = {} THEN g.db.groupSeq ELSE CHOOSE i \in found : TRUE
           r == createConfig(d, [group |-> gid, fromSub |-> FALSE, uri |-> Parse(uri).uri])
       IN  /\ found = {} => db.groupSeq < MaxGroupId
           /\ db' = r.db
           /\ last' = NoOp
    /\ upd' = upd

\* `config delete` (part_007 line 311): Storage.DeleteConfig(id).
ConfigDelete(id) ==
    /\ CatalogOnly
    /\ ~Locked
    /\ id \in ConfigIds(db)
    /\ LET r == deleteConfig(db, id)
       IN  /\ db' = r.db
           /\ last' = NoOp
    /\ upd' = upd

\* connect saves the active connection (part_006 lines 245-254).
SetActive(cid) ==
    /\ CatalogOnly
    /\ ~Locked
    /\ cid \in ConfigIds(db)
    /\ db.active # cid
    /\ LET r == setActiveConnection(db, cid)
       IN  /\ db' = r.db
           /\ last' = NoOp
    /\ upd' = upd

\* disconnect clears it (part_006 lines 396-398).
ClearActive ==
    /\ CatalogOnly
    /\ ~Locked
    /\ db.active # 0
    /\ db' = clearActiveConnection(db).db
    /\ last' = NoOp
    /\ upd' = upd

---------------------------------------------------------------------------
(* Tunnel: system state, state file and stop file (package tun) *)

OrigGateway == "192.168.1.1"
ServerAddr == "203.0.113.7"
tunGateway == "198.18.0.1"
tunDNS == "8.8.8.8"
SystemTUN == "utun0"
EngineTUN == "utun4"
Overlays == {"0/1", "128/1"}

\* allBypasses of RunDaemon: the server addresses, tunDNS and 1.1.1.1.
allBypasses == {ServerAddr, tunDNS, "1.1.1.1"}

NoFile == [kind |-> "none"]
\* os.WriteFile creates or truncates the file, then writes: in between the
\* file exists and does not parse.
EmptyFile == [kind |-> "empty"]
StateOf(gateway, addrs, device) ==
    [kind |-> "state", gateway |-> gateway, addrs |-> addrs, device |-> device]

\* stateFilePath is under os.UserHomeDir(), the elevated user's home unless
\* sudo keeps HOME; the daemon writes the file elevated, so a process sees it
\* when it is elevated itself or when sudo keeps HOME.
Sees(priv) == priv \/ keepHome
StateView(priv) == IF Sees(priv) THEN sfile ELSE NoFile

\* readStateFile: the file is read and parsed.
readStateFileAny(f) ==
    [ok |-> TRUE,
     state |-> IF f.kind = "state" THEN f
               ELSE StateOf(OrigGateway, allBypasses, EngineTUN)]

readStateFile(f) ==
    IF f.kind = "state" THEN [ok |-> TRUE, state |-> f]
    ELSE [ok |-> FALSE, state |-> f]

\* The route commands; run() needs root and the callers of the restoring
\* ones ignore its error.
addBypassRoutes(r, addrs) == [r EXCEPT !.bypass = @ \cup addrs]
removeBypassRoutes(r, addrs) == [r EXCEPT !.bypass = @ \ addrs]
setDefaultRouteTUN(r) == [r EXCEPT !.overlay = Overlays]
restoreDefaultRoute(r, gateway) == [r EXCEPT !.overlay = {}, !.default = gateway]
configureDNS(server) == server
restoreDNS == "empty"

\* What os.Remove of the state file can give: done when elevated; for the
\* invoking user it depends on who owns the cache directory.
RemoveOutcomes(priv) == IF priv THEN {TRUE} ELSE {TRUE, FALSE}

\* CleanupIfNeeded (cleanup.go lines 65-92) run with privilege priv, the
\* removal of the file giving rm: the rows of the system after it.
CleanupIfNeeded(priv, rm) ==
    LET f == StateView(priv)
        r == readStateFile(f)
        gone == IF rm THEN NoFile ELSE sfile
    IN  IF f.kind = "none"
        THEN [sfile |-> sfile, routes |-> routes, dns |-> dns]
        ELSE IF ~r.ok
        THEN [sfile |-> gone, routes |-> routes, dns |-> dns]
        ELSE IF priv
        THEN [sfile |-> gone,
              routes |-> removeBypassRoutes(restoreDefaultRoute(routes, r.state.gateway),
                                            r.state.addrs),
              dns |-> restoreDNS]
        ELSE [sfile |-> gone, routes |-> routes, dns |-> dns]

Installed ==
    /\ allBypasses \subseteq routes.bypass
    /\ routes.overlay = Overlays
    /\ dns = tunDNS

TornDown ==
    /\ routes.overlay = {}
    /\ routes.bypass \cap allBypasses = {}
    /\ dns # tunDNS
    /\ routes.default = OrigGateway

NoRet == [op |-> "none", ok |-> TRUE, priv |-> TRUE, pre |-> FALSE, err |-> "none"]

---------------------------------------------------------------------------
(* Tunnel daemon: RunDaemon (part_013) *)

\* The order of RunDaemon's system changes (lines 115-146): the state file
\* is created and written last. The in-process Enable of tun.go saved the
\* state first (lines 47-76).
SetupOrderStateFirst == <<"create", "write", "bypass", "overlay", "dns">>

SetupOrder == <<"bypass", "overlay", "dns", "create", "write">>

DaemonOff == [pc |-> "off", k |-> 0]
DaemonAlive == dmn.pc # "off"

\* The system after undoing the first k setup steps, as the failure branches
\* of RunDaemon do.
Undone(k) ==
    LET did == {SetupOrder[j] : j \in 1..k}
    IN  [routes |-> [routes EXCEPT
                       !.overlay = IF "overlay" \in did THEN {} ELSE @,
                       !.bypass = IF "bypass" \in did THEN @ \ allBypasses ELSE @],
         dns |-> IF "dns" \in did THEN restoreDNS ELSE dns]

\* checkPrivileges, detectGateway, the snapshot of the interfaces and
\* engine.Start (lines 48-78); the engine may fail to create the device.
DaemonInit ==
    /\ TunnelOnly
    /\ dmn.pc = "init"
    /\ \/ /\ ifaces' = ifaces \cup {EngineTUN}
          /\ dmn' = [dmn EXCEPT !.pc = "dev"]
       \/ /\ ifaces' = ifaces
          /\ dmn' = DaemonOff
    /\ UNCHANGED <<keepHome, sfile, stop, routes, dns, en, dis, tret>>

\* findNewTUNInterface and configureTUNAddress (lines 82-104).
DaemonDevice ==
    /\ TunnelOnly
    /\ dmn.pc = "dev"
    /\ \/ /\ dmn' = [pc |-> "setup", k |-> 1]
          /\ ifaces' = ifaces
       \/ /\ dmn' = DaemonOff
          /\ ifaces' = ifaces \ {EngineTUN}
    /\ UNCHANGED <<keepHome, sfile, stop, routes, dns, en, dis, tret>>

\* One setup step done: on to the next, or to the wait loop.
Advance == IF dmn.k = Len(SetupOrder)
           THEN [pc |-> "ready", k |-> dmn.k]
           ELSE [dmn EXCEPT !.k = @ + 1]

\* The k-th system change of the setup succeeds. saveState is os.WriteFile:
\* "create" opens the file truncated, "write" fills the file it opened (and
\* nothing at the path when the file was unlinked meanwhile).
DaemonSetup ==
    /\ TunnelOnly
    /\ dmn.pc = "setup"
    /\ LET step == SetupOrder[dmn.k]
       IN  /\ routes' = IF step = "bypass" THEN addBypassRoutes(routes, allBypasses)
                        ELSE IF step = "overlay" THEN setDefaultRouteTUN(routes)
                        ELSE routes
           /\ dns' = IF step = "dns" THEN configureDNS(tunDNS) ELSE dns
           /\ sfile' = IF step = "create" THEN EmptyFile
                       ELSE IF step = "write" /\ sfile = EmptyFile
                       THEN StateOf(routes.default, allBypasses, EngineTUN)
                       ELSE sfile
    /\ dmn' = Advance
    /\ UNCHANGED <<keepHome, stop, ifaces, en, dis, tret>>

\* The k-th system change fails: the branch undoes the earlier ones, stops
\* the engine and the daemon exits. A failing addBypassRoutes leaves the
\* routes it had added.
DaemonSetupFails ==
    /\ TunnelOnly
    /\ dmn.pc = "setup"
    /\ SetupOrder[dmn.k] # "write"
    /\ LET u == Undone(dmn.k - 1)
       IN  /\ dns' = u.dns
           /\ \/ routes' = u.routes
              \/ /\ SetupOrder[dmn.k] = "bypass"
                 /\ routes' = addBypassRoutes(u.routes, {ServerAddr})
    /\ ifaces' = ifaces \ {EngineTUN}
    /\ dmn' = DaemonOff
    /\ UNCHANGED <<keepHome, sfile, stop, en, dis, tret>>

\* The wait loop (lines 164-174): the stop file is seen and removed.
DaemonSeesStop ==
    /\ TunnelOnly
    /\ dmn.pc = "ready"
    /\ stop
    /\ stop' = FALSE
    /\ dmn' = [dmn EXCEPT !.pc = "c_dns"]
    /\ UNCHANGED <<keepHome, sfile, routes, dns, ifaces, en, dis, tret>>

\* SIGTERM or SIGINT reaches the wait loop.
DaemonSignalled ==
    /\ TunnelOnly
    /\ dmn.pc = "ready"
    /\ dmn' = [dmn EXCEPT !.pc = "c_dns"]
    /\ UNCHANGED <<keepHome, sfile, stop, routes, dns, ifaces, en, dis, tret>>

\* A cleanup that removes the state file first instead of last.
DaemonCleanupStateFirst ==
    /\ TunnelOnly
    /\ dmn.pc \in {"c_dns", "c_route", "c_bypass", "c_engine", "c_state"}
    /\ dns' = IF dmn.pc = "c_dns" THEN restoreDNS ELSE dns
    /\ routes' = IF dmn.pc = "c_route" THEN restoreDefaultRoute(routes, OrigGateway)
                 ELSE IF dmn.pc = "c_bypass" THEN removeBypassRoutes(routes, allBypasses)
                 ELSE routes
    /\ ifaces' = IF dmn.pc = "c_engine" THEN ifaces \ {EngineTUN} ELSE ifaces
    /\ sfile' = IF dmn.pc = "c_dns" THEN NoFile ELSE sfile
    /\ dmn' = IF dmn.pc = "c_dns" THEN [dmn EXCEPT !.pc = "c_route"]
              ELSE IF dmn.pc = "c_route" THEN [dmn EXCEPT !.pc = "c_bypass"]
              ELSE IF dmn.pc = "c_bypass" THEN [dmn EXCEPT !.pc = "c_engine"]
              ELSE IF dmn.pc = "c_engine" THEN [dmn EXCEPT !.pc = "c_state"]
              ELSE DaemonOff
    /\ UNCHANGED <<keepHome, stop, en, dis, tret>>

\* cleanup (lines 176-185), one command at a time.
DaemonCleanup ==
    /\ TunnelOnly
    /\ dmn.pc \in {"c_dns", "c_route", "c_bypass", "c_engine", "c_state"}
    /\ dns' = IF dmn.pc = "c_dns" THEN restoreDNS ELSE dns
    /\ routes' = IF dmn.pc = "c_route" THEN restoreDefaultRoute(routes, OrigGateway)
                 ELSE IF dmn.pc = "c_bypass" THEN removeBypassRoutes(routes, allBypasses)
                 ELSE routes
    /\ ifaces' = IF dmn.pc = "c_engine" THEN ifaces \ {EngineTUN} ELSE ifaces
    /\ sfile' = IF dmn.pc = "c_state" THEN NoFile ELSE sfile
    /\ dmn' = IF dmn.pc = "c_dns" THEN [dmn EXCEPT !.pc = "c_route"]
              ELSE IF dmn.pc = "c_route" THEN [dmn EXCEPT !.pc = "c_bypass"]
              ELSE IF dmn.pc = "c_bypass" THEN [dmn EXCEPT !.pc = "c_engine"]
              ELSE IF dmn.pc = "c_engine" THEN [dmn EXCEPT !.pc = "c_state"]
              ELSE DaemonOff
    /\ UNCHANGED <<keepHome, stop, en, dis, tret>>

\* The daemon is killed (SIGKILL, or a signal before signal.Notify): the
\* process and its device are gone, what it installed stays.
DaemonKilled ==
    /\ TunnelOnly
    /\ DaemonAlive
    /\ dmn' = DaemonOff
    /\ ifaces' = ifaces \ {EngineTUN}
    /\ UNCHANGED <<keepHome, sfile, stop, routes, dns, en, dis, tret>>

---------------------------------------------------------------------------
(* Parent side: Enable, Disable (part_012) and the start of the application *)

\* Enable up to the poll loop (lines 37-93): not elevated, ErrNotRoot; else
\* CleanupIfNeeded, the stop file is removed and the daemon spawned.
EnableStart(priv) ==
    /\ TunnelOnly
    /\ en = "idle"
    /\ ~DaemonAlive
    /\ IF ~priv
       THEN /\ tret' = [op |-> "Enable", ok |-> FALSE, priv |-> priv, pre |-> FALSE,
                     err |-> "notroot"]
            /\ UNCHANGED <<sfile, stop, routes, dns, dmn, en>>
       ELSE /\ LET c == CleanupIfNeeded(priv, TRUE)
               IN  sfile' = c.sfile /\ routes' = c.routes /\ dns' = c.dns
            /\ stop' = FALSE
            /\ dmn' = [pc |-> "init", k |-> 0]
            /\ en' = "poll"
            /\ tret' = tret
    /\ UNCHANGED <<keepHome, ifaces, dis>>

\* The poll loop (lines 95-98): os.Stat of the state file succeeds.
EnableReady ==
    /\ TunnelOnly
    /\ en = "poll"
    /\ StateView(TRUE).kind # "none"
    /\ en' = "idle"
    /\ tret' = [op |-> "Enable", ok |-> TRUE, priv |-> TRUE, pre |-> FALSE, err |-> "none"]
    /\ UNCHANGED <<keepHome, sfile, stop, routes, dns, ifaces, dmn, dis>>

\* The 15 s pass without a state file (lines 106-107): the daemon is killed.
\* The loop's other exit, on cmd.ProcessState != nil (lines 100-102), is
\* never taken: ProcessState is set by cmd.Wait, which Enable does not call,
\* so a child that has exited is waited for until the deadline as well.
\* tret.pre tells whether the child had exited before the deadline.
EnableTimeout ==
    /\ TunnelOnly
    /\ en = "poll"
    /\ StateView(TRUE).kind = "none"
    /\ en' = "idle"
    /\ dmn' = DaemonOff
    /\ ifaces' = ifaces \ {EngineTUN}
    /\ tret' = [op |-> "Enable", ok |-> FALSE, priv |-> TRUE, pre |-> ~DaemonAlive,
                err |-> "timeout"]
    /\ UNCHANGED <<keepHome, sfile, stop, routes, dns, dis>>

DisIdle == [pc |-> "idle", priv |-> TRUE, quiet |-> FALSE]

\* No tunnel is active: no state file and no daemon.
Quiet == sfile.kind = "none" /\ ~DaemonAlive

\* Disable writes the stop file (lines 114-124).
DisableStart(priv) ==
    /\ TunnelOnly
    /\ dis.pc = "idle"
    /\ stop' = TRUE
    /\ dis' = [pc |-> "poll", priv |-> priv, quiet |-> Quiet]
    /\ UNCHANGED <<keepHome, sfile, routes, dns, ifaces, dmn, en, tret>>

\* The poll loop (lines 129-134): os.Stat says the state file is not there.
DisableDone ==
    /\ TunnelOnly
    /\ dis.pc = "poll"
    /\ StateView(dis.priv).kind = "none"
    /\ dis' = DisIdle
    /\ tret' = [op |-> "Disable", ok |-> TRUE, priv |-> dis.priv, pre |-> dis.quiet, err |-> "none"]
    /\ UNCHANGED <<keepHome, sfile, stop, routes, dns, ifaces, dmn, en>>

\* The 10 s pass with the state file still there and no daemon to answer.
DisableExpired ==
    /\ TunnelOnly
    /\ dis.pc = "poll"
    /\ StateView(dis.priv).kind # "none"
    /\ ~DaemonAlive
    /\ dis' = [dis EXCEPT !.pc = "direct"]
    /\ UNCHANGED <<keepHome, sfile, stop, routes, dns, ifaces, dmn, en, tret>>

\* The direct cleanup (lines 137-149): only when the state file parses, and
\* nil is returned whatever happened.
DisableDirect ==
    /\ TunnelOnly
    /\ dis.pc = "direct"
    /\ stop' = FALSE
    /\ LET r == readStateFile(StateView(dis.priv))
       IN  IF ~r.ok
           THEN UNCHANGED <<sfile, routes, dns>>
           ELSE /\ dns' = IF dis.priv THEN restoreDNS ELSE dns
                /\ routes' = IF dis.priv
                             THEN removeBypassRoutes(
                                    restoreDefaultRoute(routes, r.state.gateway),
                                    r.state.addrs)
                             ELSE routes
                /\ \E rm \in RemoveOutcomes(dis.priv) :
                     sfile' = IF rm /\ Sees(dis.priv) THEN NoFile ELSE sfile
    /\ dis' = DisIdle
    /\ tret' = [op |-> "Disable", ok |-> TRUE, priv |-> dis.priv, pre |-> dis.quiet, err |-> "none"]
    /\ UNCHANGED <<keepHome, ifaces, dmn, en>>

\* Crashed: the daemon was killed after writing its state file and all it
\* installed is still there.
Crashed == ~DaemonAlive /\ sfile.kind = "state" /\ Installed

\* app.New (app.go line 55): every start of the application, elevated or
\* not, runs CleanupIfNeeded.
AppStart(priv) ==
    /\ TunnelOnly
    /\ \E rm \in RemoveOutcomes(priv) :
         LET c == CleanupIfNeeded(priv, rm)
         IN  sfile' = c.sfile /\ routes' = c.routes /\ dns' = c.dns
    /\ tret' = [op |-> "CleanupIfNeeded", ok |-> TRUE, priv |-> priv, pre |-> Crashed, err |-> "none"]
    /\ UNCHANGED <<keepHome, stop, ifaces, dmn, en, dis>>

---------------------------------------------------------------------------
(* Engine supervisor: Xray.Start, Xray.Stop and the exit watcher (stats.go) *)

NoPid == 0

\* A new Xray struct, as New() gives every invocation of the program.
FreshX == [running |-> 0, cmd |-> NoPid]

NoEngine == [state |-> "none", pid |-> NoPid, sigint |-> FALSE]
StIdle == [pc |-> "idle"]
SpIdle == [pc |-> "idle", pid |-> NoPid, child |-> FALSE]
NoXRet == [op |-> "none", ok |-> TRUE, pid |-> NoPid, child |-> FALSE]

\* The process with this pid exists: it answers the no-op signal.
Alive(pid) == pid # NoPid /\ eng.state = "alive" /\ eng.pid = pid

\* IsRunning (lines 438-463): the flag, else the PID file and signal 0.
IsRunning == x.running = 1 \/ Alive(pidFile)

\* Start fails before the process is launched (lines 261-329): already
\* running, config, binary, log file or cmd.Start.
StartFailsEarly ==
    /\ XrayOnly
    /\ st.pc = "idle" /\ sp.pc = "idle"
    /\ xret' = [op |-> "Start", ok |-> FALSE, pid |-> NoPid, child |-> FALSE]
    /\ UNCHANGED <<eng, pidFile, x, st, w, sp>>

\* cmd.Start, running = 1, the PID file and the watcher goroutine (lines
\* 326-350); Start then sleeps a second. Manager.Start lets it run only when
\* IsRunning is false.
StartLaunch ==
    /\ XrayOnly
    /\ st.pc = "idle" /\ sp.pc = "idle"
    /\ ~IsRunning
    /\ w = "off"
    /\ eng.pid < MaxPid
    /\ eng' = [state |-> "alive", pid |-> eng.pid + 1, sigint |-> FALSE]
    /\ x' = [running |-> 1, cmd |-> eng.pid + 1]
    /\ pidFile' = eng.pid + 1
    /\ w' = "wait"
    /\ st' = [pc |-> "sleep"]
    /\ UNCHANGED <<sp, xret>>

\* The check after the sleep (lines 355-363).
StartCheck ==
    /\ XrayOnly
    /\ st.pc = "sleep"
    /\ st' = StIdle
    /\ xret' = [op |-> "Start", ok |-> x.running # 0, pid |-> x.cmd, child |-> TRUE]
    /\ UNCHANGED <<eng, pidFile, x, w, sp>>

\* The watcher goroutine: cmd.Wait returns once the process has exited and
\* the flag is cleared (lines 346-347) ...
WatcherReaps ==
    /\ XrayOnly
    /\ w = "wait"
    /\ eng.state = "dead"
    /\ x' = [x EXCEPT !.running = 0]
    /\ w' = "close"
    /\ UNCHANGED <<eng, pidFile, st, sp, xret>>

\* ... then the log file is closed and the PID file removed (lines 348-349).
WatcherRemoves ==
    /\ XrayOnly
    /\ w = "close"
    /\ pidFile' = NoPid
    /\ w' = "off"
    /\ UNCHANGED <<eng, x, st, sp, xret>>

\* The engine exits by itself: a config error, a crash.
EngineExits ==
    /\ XrayOnly
    /\ eng.state = "alive"
    /\ eng' = [eng EXCEPT !.state = "dead"]
    /\ UNCHANGED <<pidFile, x, st, w, sp, xret>>

\* The engine acts on the interrupt it was sent and exits.
EngineInterrupted ==
    /\ XrayOnly
    /\ eng.state = "alive" /\ eng.sigint
    /\ eng' = [eng EXCEPT !.state = "dead"]
    /\ UNCHANGED <<pidFile, x, st, w, sp, xret>>

\* The invocation of the program ends: its Xray struct and its goroutines
\* are gone, the detached engine is not.
CliExit ==
    /\ XrayOnly
    /\ st.pc = "idle" /\ sp.pc = "idle"
    /\ x # FreshX \/ w # "off"
    /\ x' = FreshX
    /\ w' = "off"
    /\ UNCHANGED <<eng, pidFile, st, sp, xret>>

\* The process Stop acts on (lines 372-388): the in-memory handle, else the
\* pid of the PID file (FindProcess always succeeds on Unix), else none.
StopTarget ==
    IF x.cmd # NoPid THEN [pid |-> x.cmd, child |-> TRUE]
    ELSE [pid |-> pidFile, child |-> FALSE]

\* os.Process.Wait as Stop's goroutine calls it (lines 409-412): on the
\* child it returns once the process has exited; on a process found by pid,
\* which is no child of the caller, it returns at once with an error.
WaitReturns(pid, child) == ~child \/ ~Alive(pid)

\* Stop up to the select (lines 367-412): no process, or the interrupt
\* cannot be sent and neither can the kill: flag cleared, PID file removed,
\* nil. Else the interrupt is sent and Stop waits.
StopBegin ==
    /\ XrayOnly
    /\ st.pc = "idle" /\ sp.pc = "idle"
    /\ LET t == StopTarget
       IN  IF ~Alive(t.pid)
           THEN /\ x' = [x EXCEPT !.running = 0]
                /\ pidFile' = NoPid
                /\ xret' = [op |-> "Stop", ok |-> TRUE, pid |-> t.pid, child |-> t.child]
                /\ UNCHANGED <<eng, sp>>
           ELSE /\ eng' = [eng EXCEPT !.sigint = TRUE]
                /\ sp' = [pc |-> "wait", pid |-> t.pid, child |-> t.child]
                /\ UNCHANGED <<x, pidFile, xret>>
    /\ UNCHANGED <<st, w>>

\* done is received (line 415): flag cleared, PID file removed, nil.
StopDone ==
    /\ XrayOnly
    /\ sp.pc = "wait"
    /\ WaitReturns(sp.pid, sp.child)
    /\ x' = [x EXCEPT !.running = 0]
    /\ pidFile' = NoPid
    /\ sp' = SpIdle
    /\ xret' = [op |-> "Stop", ok |-> TRUE, pid |-> sp.pid, child |-> sp.child]
    /\ UNCHANGED <<eng, st, w>>

\* The 5 s pass first (lines 416-418): the process is killed.
StopTimeout ==
    /\ XrayOnly
    /\ sp.pc = "wait"
    /\ ~WaitReturns(sp.pid, sp.child)
    /\ eng' = [eng EXCEPT !.state = "dead"]
    /\ x' = [x EXCEPT !.running = 0]
    /\ pidFile' = NoPid
    /\ sp' = SpIdle
    /\ xret' = [op |-> "Stop", ok |-> TRUE, pid |-> sp.pid, child |-> sp.child]
    /\ UNCHANGED <<st, w>>

\* The PID file names a process that is gone.
StaleFile == pidFile # NoPid /\ ~Alive(pidFile)

\* Manager.Stop (lines 670-679) when IsRunning is false: "core is not
\* running" is returned and Xray.Stop is not called; when IsRunning is true
\* it is Stop above. xret.pid is the content of the PID file it found.
ManagerStopRefused ==
    /\ XrayOnly
    /\ st.pc = "idle" /\ sp.pc = "idle"
    /\ ~IsRunning
    /\ xret' = [op |-> "ManagerStop", ok |-> FALSE, pid |-> pidFile, child |-> FALSE]
    /\ UNCHANGED <<eng, pidFile, x, st, w, sp>>

\* disconnectCurrent (part_006 lines 387-400) when IsRunning is false:
\* coreManager.Stop is skipped, the connection row is cleared, nil.
DisconnectSkipsStop ==
    /\ XrayOnly
    /\ st.pc = "idle" /\ sp.pc = "idle"
    /\ ~IsRunning
    /\ xret' = [op |-> "disconnectCurrent", ok |-> TRUE, pid |-> pidFile, child |-> FALSE]
    /\ UNCHANGED <<eng, pidFile, x, st, w, sp>>

---------------------------------------------------------------------------
(* Subscription fetcher: Fetcher.Fetch (part_020) *)

\* DefaultFetcherConfig: MaxRetries and RetryDelay (seconds).
DefaultMaxRetries == 3

RetryDelay == 2

\* What doFetch can return while the context is live: the body (200), an
\* HTTPError with a 4xx status, an HTTPError with another status, or a
\* transport error.
Outcomes == {"ok", "4xx", "5xx", "neterr"}

Retryable == {"5xx", "neterr"}

FetchIdle ==
    [pc |-> "idle", maxRetries |-> 0, attempt |-> 0, requests |-> 0,
     waits |-> << >>, outs |-> << >>, cancelled |-> FALSE, ret |-> "none"]

\* Lines 85-89: an HTTPError with 400 <= StatusCode < 500 leaves the loop.
ClientErrorRetried(o) == FALSE

ClientErrorBreaks(o) == o = "4xx"

\* Lines 65-69: the select of the backoff wait takes ctx.Done() when the
\* context is cancelled before the timer fires.
WaitIgnoresContext == FALSE

WaitSelectsDone == TRUE

\* Line 68: the wait before the attempt-th retry.
BackoffFlat(attempt) == RetryDelay

Backoff(attempt) == RetryDelay * attempt

\* Fetch returns (nil, error).
FetchError(f) == [f EXCEPT !.pc = "done", !.ret = "error"]

\* Fetch(ctx, url) is called on a fetcher built with maxRetries = n.
FetchCall(n) ==
    /\ FetchOnly
    /\ ft.pc = "idle"
    /\ ft' = [FetchIdle EXCEPT !.pc = "send", !.maxRetries = n]

\* doFetch builds the request with the caller's context and hands it to the
\* client (lines 100-110). Under a cancelled context the client returns the
\* context's error without sending, and line 80 leaves the loop.
FetchSend ==
    /\ FetchOnly
    /\ ft.pc = "send"
    /\ IF ft.cancelled
       THEN ft' = FetchError([ft EXCEPT !.outs = Append(@, "ctxerr")])
       ELSE ft' = [ft EXCEPT !.pc = "inflight", !.requests = @ + 1]

\* doFetch returns and the loop decides (lines 72-90). The request carries
\* the context: an attempt in flight when the context is cancelled fails with
\* the context's error.
FetchRecv(o) ==
    /\ FetchOnly
    /\ ft.pc = "inflight"
    /\ IF ft.cancelled THEN o = "ctxerr" ELSE o \in Outcomes
    /\ LET f == [ft EXCEPT !.outs = Append(@, o)]
       IN  IF o = "ok"
           THEN ft' = [f EXCEPT !.pc = "done", !.ret = "ok"]
           ELSE IF ft.cancelled \/ ClientErrorBreaks(o)
           THEN ft' = FetchError(f)
           ELSE IF ft.attempt + 1 > ft.maxRetries
           THEN ft' = FetchError([f EXCEPT !.attempt = @ + 1])
           ELSE ft' = [f EXCEPT !.pc = "wait", !.attempt = @ + 1]

\* time.After(retryDelay * attempt) fires first (line 68).
FetchWaitExpires ==
    /\ FetchOnly
    /\ ft.pc = "wait"
    /\ WaitSelectsDone => ~ft.cancelled
    /\ ft' = [ft EXCEPT !.pc = "send", !.waits = Append(@, Backoff(ft.attempt))]

\* ctx.Done() is taken (lines 66-67): return nil, ctx.Err().
FetchWaitCancelled ==
    /\ FetchOnly
    /\ ft.pc = "wait"
    /\ WaitSelectsDone
    /\ ft.cancelled
    /\ ft' = FetchError(ft)

\* The caller cancels the context while Fetch runs.
FetchCancel ==
    /\ FetchOnly
    /\ ft.pc \in {"send", "inflight", "wait"}
    /\ ~ft.cancelled
    /\ ft' = [ft EXCEPT !.cancelled = TRUE]

---------------------------------------------------------------------------
(* Subscription decoder: Decoder.Decode (part_021) *)

\* A body is a sequence of pieces of text. Plain pieces: "S" a recognised
\* scheme prefix in lower case (vless://), "U" the same prefix in upper case,
\* "H" a prefix that is not a proxy scheme (http://), "p" the rest of a URI
\* (it holds characters outside the base64 alphabet, as "S", "U" and "H" do
\* with their colon), "sp" a blank and "nl" a newline. Base64 pieces: "bS",
\* "bp", "bsp" and "bnl" are the base64 text of "S", "p", "sp" and "nl".
Plain == {"S", "U", "H", "p", "sp", "nl"}

Base64 == {"bS", "bp", "bsp", "bnl"}

Pieces == Plain \cup Base64

Bodies == UNION {[1..n -> Pieces] : n \in 0..MaxBody}

\* What a base64 piece decodes to.
Unbase64(t) ==
    CASE t = "bS" -> "S"
      [] t = "bp" -> "p"
      [] t = "bsp" -> "sp"
      [] t = "bnl" -> "nl"

RECURSIVE DecodePieces(_)
DecodePieces(s) ==
    IF s = << >> THEN << >>
    ELSE IF Head(s) = "nl" THEN DecodePieces(Tail(s))
    ELSE <<Unbase64(Head(s))>> \o DecodePieces(Tail(s))

\* decodeBase64: the encoding/base64 decoders skip newlines and fail on any
\* other character outside their alphabet.
decodeBase64(content) ==
    IF \A k \in 1..Len(content) : content[k] \in Base64 \cup {"nl"}
    THEN [err |-> FALSE, text |-> DecodePieces(content)]
    ELSE [err |-> TRUE, text |-> << >>]

\* strings.Split(decoded, "\n").
RECURSIVE Split(_)
Split(s) ==
    IF \A k \in 1..Len(s) : s[k] # "nl"
    THEN <<s>>
    ELSE LET k == CHOOSE i \in 1..Len(s) : s[i] = "nl" /\ \A j \in 1..(i - 1) : s[j] # "nl"
         IN  <<SubSeq(s, 1, k - 1)>> \o Split(SubSeq(s, k + 1, Len(s)))

\* strings.TrimSpace.
RECURSIVE TrimSpace(_)
TrimSpace(l) ==
    IF l = << >> THEN l
    ELSE IF Head(l) = "sp" THEN TrimSpace(Tail(l))
    ELSE IF l[Len(l)] = "sp" THEN TrimSpace(SubSeq(l, 1, Len(l) - 1))
    ELSE l

\* strings.ToLower on the piece that starts a line.
ToLowerSkipped(t) == t

ToLower(t) == IF t = "U" THEN "S" ELSE t

\* isValidURI: strings.HasPrefix(strings.ToLower(uri), protocol) for one of
\* the protocols of lines 91-102.
isValidURI(uri) == uri # << >> /\ ToLower(uri[1]) = "S"

\* The loop of lines 36-46 over the lines from the i-th on.
RECURSIVE Retain(_, _)
Retain(lines, i) ==
    IF i > Len(lines) THEN << >>
    ELSE LET line == TrimSpace(lines[i])
         IN  IF line = << >> THEN Retain(lines, i + 1)
             ELSE IF isValidURI(line) THEN <<line>> \o Retain(lines, i + 1)
             ELSE Retain(lines, i + 1)

\* Decode(content): (uris, nil) or (nil, ErrSubscriptionEmpty).
Decode(content) ==
    IF Len(content) = 0
    THEN [err |-> TRUE, uris |-> << >>]
    ELSE LET b == decodeBase64(content)
             decoded == IF b.err THEN content ELSE b.text
             uris == Retain(Split(decoded), 1)
         IN  IF Len(uris) = 0
             THEN [err |-> TRUE, uris |-> << >>]
             ELSE [err |-> FALSE, uris |-> uris]

NoDecode == [err |-> FALSE, uris |-> << >>]

\* Decode is called on the body the fetcher returned.
DecodeCall ==
    /\ DecodeOnly
    /\ ~dc.done
    /\ dc' = [dc EXCEPT !.done = TRUE, !.out = Decode(dc.content)]

---------------------------------------------------------------------------
(* Subscription synchronizer: Manager.UpdateAllDue (part_019) *)

\* Names of the subscription groups `group create` made before the batch.
DueNames == <<"work", "home", "lab", "cafe">>

SubGroup(name, auto) ==
    [name |-> name, isGlobal |-> FALSE, url |-> TRUE, autoUpdate |-> auto,
     interval |-> 1, lastUpdated |-> NoTime, nextUpdate |-> NoTime]

\* The store after `group create` ran for the first k names, auto[i] telling
\* whether the i-th was made with auto-update.
RECURSIVE StoreWith(_, _)
StoreWith(k, auto) ==
    IF k = 0 THEN InitDB
    ELSE createGroup(StoreWith(k - 1, auto), SubGroup(DueNames[k], auto[k])).db

DueStores == {StoreWith(k, auto) : k \in 0..MaxDueGroups, auto \in [1..MaxDueGroups -> BOOLEAN]}

\* The ids of S in ascending order, as the rows come back.
RECURSIVE Ascending(_)
Ascending(S) ==
    IF S = {} THEN << >>
    ELSE LET m == CHOOSE i \in S : \A j \in S : i <= j
         IN  <<m>> \o Ascending(S \ {m})

\* getDueGroups: subscription_url IS NOT NULL AND auto_update = 1 AND
\* (next_update IS NULL OR next_update <= datetime('now')).
getDueGroups(d, now) ==
    Ascending({i \in GroupIds(d) :
                 /\ d.groups[i].url
                 /\ d.groups[i].autoUpdate
                 /\ (d.groups[i].nextUpdate = NoTime \/ d.groups[i].nextUpdate <= now)})

\* Where one call of UpdateGroup can fail for a reason outside the store.
Faults == {"none", "fetch", "update", "commit"}

\* UpdateGroup(gid) run from its first line to its return with no statement
\* of another connection in between: the feed is f, fault says which of
\* Fetch/Decode/BeginTx, tx.UpdateGroup or Commit fails, if any.
UpdateGroupCall(d, gid, fault, f) ==
    LET failed == [err |-> TRUE, db |-> d, added |-> 0, failed |-> 0]
    IN  IF gid \notin GroupIds(d) \/ ~d.groups[gid].url THEN failed
        ELSE IF fault = "fetch" THEN failed
        ELSE LET del == deleteConfigsByGroup(d, gid, TRUE)
                 ins == InsertAll(del.db, gid, f, 1)
                 g == [d.groups[gid] EXCEPT
                         !.lastUpdated = Now(d),
                         !.nextUpdate = IF d.groups[gid].autoUpdate
                                        THEN Now(d) + d.groups[gid].interval
                                        ELSE d.groups[gid].nextUpdate]
                 u == updateGroup(ins.db, gid, g)
             IN  IF del.err \/ fault \in {"update", "commit"} \/ u.err THEN failed
                 ELSE [err |-> FALSE, db |-> u.db, added |-> ins.added,
                       failed |-> ins.failed]

DueIdle == [pc |-> "idle", force |-> FALSE, groups |-> << >>, i |-> 0, called |-> << >>,
            results |-> << >>]

\* Lines 168-177: a failed UpdateGroup is recorded and the loop continues.
DueOnErrorAbort == "abort"

DueOnError == "continue"

\* UpdateAllDue is called: GetDueGroups and the empty case (lines 155-164).
\* One call is followed per behaviour.
DueStart(now) ==
    /\ DueOnly
    /\ due.pc = "idle"
    /\ Now(db) <= MaxClock
    /\ now \in {Now(db) - 1, Now(db)}
    /\ LET groups == getDueGroups(db, now)
       IN  due' = [DueIdle EXCEPT !.pc = IF groups = << >> THEN "done" ELSE "loop",
                                  !.groups = groups, !.i = 1]
    /\ db' = db

\* Scheduler.ForceUpdateAll (part_018 lines 98-101) is a call of
\* UpdateAllDue: the same query and the same loop.
ForceUpdateAll(now) ==
    /\ DueOnly
    /\ due.pc = "idle"
    /\ Now(db) <= MaxClock
    /\ now \in {Now(db) - 1, Now(db)}
    /\ LET groups == getDueGroups(db, now)
       IN  due' = [DueIdle EXCEPT !.pc = IF groups = << >> THEN "done" ELSE "loop",
                                  !.force = TRUE,
                                  !.groups = groups, !.i = 1]
    /\ db' = db

\* One iteration of the loop (lines 166-181).
DueUpdate(fault, f) ==
    /\ DueOnly
    /\ due.pc = "loop"
    /\ LET gid == due.groups[due.i]
           r == UpdateGroupCall(db, gid, fault, f)
           res == IF r.err
                  THEN [gid |-> gid, err |-> TRUE, added |-> 0, failed |-> 1]
                  ELSE [gid |-> gid, err |-> FALSE, added |-> r.added, failed |-> r.failed]
           finished == due.i = Len(due.groups) \/ (r.err /\ DueOnError = "abort")
       IN  /\ db' = r.db
           /\ due' = [due EXCEPT !.pc = IF finished THEN "done" ELSE "loop",
                                 !.i = @ + 1,
                                 !.called = Append(@, gid),
                                 !.results = IF r.err /\ DueOnError = "abort"
                                             THEN @ ELSE Append(@, res)]

---------------------------------------------------------------------------
(* Latency tester: Tester.TestBatch (tester.go) *)

\* Latencies a successful probe reports (ms).
Latencies == 1..MaxLatency

\* What TestSingle returns: a LatencyTest with Success and LatencyMS.
ProbeResults ==
    {[set |-> TRUE, ok |-> FALSE, ms |-> 0]} \cup
    {[set |-> TRUE, ok |-> TRUE, ms |-> l] : l \in Latencies}

\* results[idx] before the goroutine wrote it: nil.
NoResult == [set |-> FALSE, ok |-> FALSE, ms |-> 0]

\* NewTester (lines 46-57): a Workers of zero or less becomes 10.
DefaultWorkers == 10

NewTester(workers) == IF workers <= 0 THEN DefaultWorkers ELSE workers

BatchIdle ==
    [pc |-> "idle", n |-> 0, cfg |-> 1, workers |-> 1, progress |-> FALSE, cancelled |-> FALSE,
     g |-> << >>, results |-> << >>, cur |-> << >>,
     completed |-> 0, succeeded |-> 0, failed |-> 0, held |-> 0,
     delivered |-> << >>, out |-> << >>, tested |-> 0]

\* The less function of lines 140-152 on two results.
less(ri, rj) ==
    IF ri.ok /\ ~rj.ok THEN TRUE
    ELSE IF ~ri.ok /\ rj.ok THEN FALSE
    ELSE IF ri.ok /\ rj.ok THEN ri.ms < rj.ms
    ELSE FALSE

\* Lines 132-137: the non-nil results, in input order.
Collected(results, n) == {i \in 1..n : results[i].set}

\* batch.Tested, incremented once per collected result.
TestedAll(results, n) == n

Tested(results, n) == Cardinality(Collected(results, n))

\* sort.Slice: the slice ends as a permutation of itself ordered by less.
\* It is not a stable sort: beyond twelve elements it partitions around a
\* pivot, and elements that compare equal may leave in any order.
SortSlice(results, n) ==
    LET S == Collected(results, n)
        k == Cardinality(S)
    IN  {p \in [1..k -> S] :
           /\ \A a, b \in 1..k : a # b => p[a] # p[b]
           /\ \A a, b \in 1..k : a < b => ~less(results[p[b]], results[p[a]])}

Exited == \A i \in 1..tb.n : tb.g[i] = "exit"

\* Values of TesterConfig.Workers: the --workers flag is an int the callers
\* pass on unchecked.
ConfiguredWorkers == (0 - 1)..MaxWorkers

\* TestBatch(ctx, configs, progress) with len(configs) = n on a tester
\* built by NewTester with TesterConfig.Workers = workers: the semaphore has
\* the size NewTester left in the config (line 98), and lines 101-128 start
\* one goroutine per config.
BatchCall(n, workers, progress) ==
    /\ BatchOnly
    /\ tb.pc = "idle"
    /\ tb' = [BatchIdle EXCEPT !.pc = "run", !.n = n, !.cfg = workers,
                               !.workers = NewTester(workers),
                               !.progress = progress,
                               !.g = [i \in 1..n |-> "acquire"],
                               !.results = [i \in 1..n |-> NoResult],
                               !.cur = [i \in 1..n |-> 0]]

\* The caller's context is cancelled while the batch runs.
BatchCancel ==
    /\ BatchOnly
    /\ tb.pc = "run"
    /\ ~tb.cancelled
    /\ tb' = [tb EXCEPT !.cancelled = TRUE]

\* An Acquire that does not wait for a free slot.
AcquireUnbounded(i) ==
    /\ BatchOnly
    /\ tb.pc = "run"
    /\ i <= tb.n
    /\ tb.g[i] = "acquire"
    /\ tb' = [tb EXCEPT !.g[i] = "test", !.held = @ + 1]

\* sem.Acquire(ctx, 1) returns nil (line 106).
Acquire(i) ==
    /\ BatchOnly
    /\ tb.pc = "run"
    /\ i <= tb.n
    /\ tb.g[i] = "acquire"
    /\ tb.held < tb.workers
    /\ tb' = [tb EXCEPT !.g[i] = "test", !.held = @ + 1]

\* sem.Acquire returns the context's error and the goroutine returns
\* (lines 106-108).
AcquireFails(i) ==
    /\ BatchOnly
    /\ tb.pc = "run"
    /\ i <= tb.n
    /\ tb.g[i] = "acquire"
    /\ tb.cancelled
    /\ tb' = [tb EXCEPT !.g[i] = "exit"]

\* TestSingle returns and results[idx] is written (lines 111-112).
TestSingle(i, r) ==
    /\ BatchOnly
    /\ tb.pc = "run"
    /\ i <= tb.n
    /\ tb.g[i] = "test"
    /\ tb' = [tb EXCEPT !.g[i] = "lock", !.results[i] = r]

\* The section under mu (lines 114-122), then, without a callback, the
\* deferred Release and Done.
Count(i) ==
    /\ BatchOnly
    /\ tb.pc = "run"
    /\ i <= tb.n
    /\ tb.g[i] = "lock"
    /\ LET t == [tb EXCEPT !.completed = @ + 1,
                           !.cur[i] = tb.completed + 1,
                           !.succeeded = IF tb.results[i].ok THEN @ + 1 ELSE @,
                           !.failed = IF tb.results[i].ok THEN @ ELSE @ + 1]
       IN  IF tb.progress
           THEN tb' = [t EXCEPT !.g[i] = "report"]
           ELSE tb' = [t EXCEPT !.g[i] = "exit", !.held = @ - 1]

\* progress(result, current, len(configs)) is entered (lines 124-126), after
\* mu.Unlock.
ProgressBegin(i) ==
    /\ BatchOnly
    /\ tb.pc = "run"
    /\ i <= tb.n
    /\ tb.g[i] = "report"
    /\ tb' = [tb EXCEPT !.g[i] = "inprogress", !.delivered = Append(@, tb.cur[i])]

\* progress returns; the deferred sem.Release and wg.Done run.
ProgressEnd(i) ==
    /\ BatchOnly
    /\ tb.pc = "run"
    /\ i <= tb.n
    /\ tb.g[i] = "inprogress"
    /\ tb' = [tb EXCEPT !.g[i] = "exit", !.held = @ - 1]

\* wg.Wait returns; the results are collected, counted and sorted and
\* TestBatch returns (lines 130-155).
BatchReturn ==
    /\ BatchOnly
    /\ tb.pc = "run"
    /\ Exited
    /\ \E p \in SortSlice(tb.results, tb.n) :
         tb' = [tb EXCEPT !.pc = "done", !.out = p,
                          !.tested = Tested(tb.results, tb.n)]

---------------------------------------------------------------------------
(* Engine supervisor under concurrent callers: core.Manager over Xray
   (stats.go) *)

Callers == 1..MaxCallers

\* Manager.Start, Manager.Stop and Manager.Restart (lines 658-693) and
\* Xray.Restart (lines 427-435), which the ProxyCore interface exposes.
ManagerOps == {"MStart", "MStop", "MRestart"}

Ops == ManagerOps \cup {"XRestart"}

Restarts == {"MRestart", "XRestart"}

SupIdle ==
    [mmu |-> 0, xmu |-> 0, running |-> FALSE,
     op |-> [c \in Callers |-> "none"], pc |-> [c \in Callers |-> "idle"]]

\* m.mu.Lock() at the head of each Manager method.
ManagerUnlocked == FALSE

ManagerLocks == TRUE

\* A caller enters one of the operations.
SupCall(c, op) ==
    /\ SupOnly
    /\ sup.pc[c] = "idle"
    /\ sup' = [sup EXCEPT !.op[c] = op,
                          !.pc[c] = IF op \in ManagerOps THEN "mlock" ELSE "xstop.lock"]

\* m.mu.Lock() returns and the method reads IsRunning (lines 659-662,
\* 671-674, 683-686).
MLock(c) ==
    /\ SupOnly
    /\ sup.pc[c] = "mlock"
    /\ ManagerLocks => sup.mmu = 0
    /\ LET next == CASE sup.op[c] = "MStart" ->
                          IF sup.running THEN "munlock" ELSE "xstart.lock"
                     [] sup.op[c] = "MStop" ->
                          IF sup.running THEN "xstop.lock" ELSE "munlock"
                     [] sup.op[c] = "MRestart" ->
                          IF sup.running THEN "xstop.lock" ELSE "xstart.lock"
       IN  sup' = [sup EXCEPT !.mmu = c, !.pc[c] = next]

\* x.mu.Lock() at the head of Xray.Start and Xray.Stop (lines 258, 368).
XLock(c) ==
    /\ SupOnly
    /\ sup.pc[c] \in {"xstop.lock", "xstart.lock"}
    /\ sup.xmu = 0
    /\ sup' = [sup EXCEPT !.xmu = c,
                          !.pc[c] = IF sup.pc[c] = "xstop.lock"
                                    THEN "xstop.body" ELSE "xstart.body"]

\* The body of Xray.Stop to its deferred Unlock (lines 372-423). A Restart
\* goes on to its Start, Manager.Stop returns.
XStopBody(c) ==
    /\ SupOnly
    /\ sup.pc[c] = "xstop.body"
    /\ sup' = [sup EXCEPT !.xmu = 0, !.running = FALSE,
                          !.pc[c] = IF sup.op[c] \in Restarts
                                    THEN "between" ELSE "munlock"]

\* Between the Stop and the Start of a Restart: the 500 ms sleep of
\* Xray.Restart (line 432), nothing in Manager.Restart (line 692).
RestartResume(c) ==
    /\ SupOnly
    /\ sup.pc[c] = "between"
    /\ sup' = [sup EXCEPT !.pc[c] = "xstart.lock"]

\* The body of Xray.Start to its deferred Unlock (lines 261-363).
XStartBody(c) ==
    /\ SupOnly
    /\ sup.pc[c] = "xstart.body"
    /\ sup' = [sup EXCEPT !.xmu = 0, !.running = TRUE,
                          !.pc[c] = IF sup.op[c] \in ManagerOps
                                    THEN "munlock" ELSE "idle"]

\* The deferred m.mu.Unlock() and the return.
MUnlock(c) ==
    /\ SupOnly
    /\ sup.pc[c] = "munlock"
    /\ sup' = [sup EXCEPT !.mmu = IF sup.mmu = c THEN 0 ELSE @, !.pc[c] = "idle"]

\* The engine exits on its own and the watcher clears the flag (line 347).
SupEngineExits ==
    /\ SupOnly
    /\ sup.running
    /\ sup' = [sup EXCEPT !.running = FALSE]

---------------------------------------------------------------------------
(* connect and disconnect: the choice of the vpn mode (part_006) *)

\* types.VPNModeTunnel and types.VPNModeProxy (stats.go lines 578-579).
VPNModeTunnel == "tunnel"

VPNModeProxy == "proxy"

\* Values of --mode: not given, the two the switch knows, and the one the
\* README and the help tree show for the tunnel.
ModeFlags == {"", "proxy", "tunnel", "tun"}

\* Values of the vpn_mode setting: the default row of the migrations and the
\* two choices of the settings tab.
StoredModes == {"proxy", "tun"}

\* The switch of lines 128-143: "proxy" and "tunnel" are taken from the
\* flag, anything else is replaced by the stored setting, cast as it is.
ParseMode(flag, stored) ==
    CASE flag = "proxy" -> VPNModeProxy
      [] flag = "tunnel" -> VPNModeTunnel
      [] OTHER -> stored

ConnectIdle ==
    [pc |-> "idle", stored |-> "proxy", flag |-> "", cid |-> 0, priv |-> FALSE,
     mode |-> VPNModeProxy, engine |-> FALSE, daemon |-> FALSE,
     active |-> [cid |-> 0, mode |-> "none"], ret |-> "none"]

\* The settings tab saves vpn_mode (part_003 line 215).
SaveSetting(v) ==
    /\ ConnectOnly
    /\ cn.pc = "idle"
    /\ cn.stored # v
    /\ cn' = [cn EXCEPT !.stored = v]

\* connect <cid> --mode <flag>, run elevated or not, with no connection
\* active: lines 64-191.
ConnectStart(cid, flag, priv) ==
    /\ ConnectOnly
    /\ cn.pc = "idle"
    /\ cn.active.mode = "none"
    /\ cn' = [cn EXCEPT !.pc = "engine", !.flag = flag, !.cid = cid, !.priv = priv,
                        !.mode = ParseMode(flag, cn.stored), !.ret = "none"]

\* coreManager.Start (lines 230-232).
ConnectEngine(ok) ==
    /\ ConnectOnly
    /\ cn.pc = "engine"
    /\ IF ok
       THEN cn' = [cn EXCEPT !.engine = TRUE,
                             !.pc = IF cn.mode = VPNModeTunnel THEN "tun" ELSE "save"]
       ELSE cn' = [cn EXCEPT !.pc = "idle", !.ret = "error"]

\* A connect that leaves the engine running when tun.Enable fails.
ConnectTunLeavesEngine(ok) ==
    /\ ConnectOnly
    /\ cn.pc = "tun"
    /\ ok => cn.priv
    /\ IF ok
       THEN cn' = [cn EXCEPT !.daemon = TRUE, !.pc = "save"]
       ELSE cn' = [cn EXCEPT !.pc = "idle", !.ret = "error"]

\* tun.Enable spawns the daemon, or fails and the engine is stopped
\* (lines 235-242); it needs elevated privileges.
ConnectTun(ok) ==
    /\ ConnectOnly
    /\ cn.pc = "tun"
    /\ ok => cn.priv
    /\ IF ok
       THEN cn' = [cn EXCEPT !.daemon = TRUE, !.pc = "save"]
       ELSE cn' = [cn EXCEPT !.engine = FALSE, !.pc = "idle", !.ret = "error"]

\* SetActiveConnection with VPNMode: string(vpnMode); a failure is only
\* warned about (lines 245-277).
ConnectSave(ok) ==
    /\ ConnectOnly
    /\ cn.pc = "save"
    /\ cn' = [cn EXCEPT !.pc = "idle", !.ret = "connected",
                        !.active = IF ok THEN [cid |-> cn.cid, mode |-> cn.mode] ELSE @]

\* disconnectCurrent (lines 354-401): tun.Disable only for a row whose
\* vpn_mode is VPNModeTunnel, then the engine is stopped and the row cleared.
Disconnect ==
    /\ ConnectOnly
    /\ cn.pc = "idle"
    /\ cn.active.mode # "none"
    /\ cn' = [cn EXCEPT !.daemon = IF cn.active.mode = VPNModeTunnel THEN FALSE ELSE @,
                        !.engine = FALSE,
                        !.active = [cid |-> 0, mode |-> "none"],
                        !.ret = "disconnected"]

---------------------------------------------------------------------------
(* Where the state artefacts live: app.New, package paths, stateFilePath,
   stopFilePath and xray.New *)

\* Files written in one behaviour.
MaxFiles == 3

\* The accounts of the machine and their home directories.
Accounts == {"alice", "root"}
HomeOf(account) == "/home-of-" \o account
NoSudoUser == ""

\* The environment of one invocation: the effective user, $HOME, $SUDO_USER
\* and whether user.Lookup(SUDO_USER) answers.
\*   a login shell of u:            euid u, HOME of u, no SUDO_USER
\*   sudo that resets HOME:         euid root, HOME of root, SUDO_USER u
\*   sudo that keeps HOME:          euid root, HOME of u, SUDO_USER u
Login(u) == [euid |-> u, home |-> HomeOf(u), sudoUser |-> NoSudoUser, lookup |-> TRUE]
Sudo(u, keep, lookup) ==
    [euid |-> "root", home |-> IF keep THEN HomeOf(u) ELSE HomeOf("root"),
     sudoUser |-> u, lookup |-> lookup]
Envs ==
    {Login(u) : u \in Accounts}
      \cup {Sudo(u, keep, lookup) : u \in Accounts \ {"root"}, keep \in BOOLEAN, lookup \in BOOLEAN}
Elevated(env) == env.euid = "root"
\* The user who typed the command.
Invoker(env) == IF env.sudoUser # NoSudoUser THEN env.sudoUser ELSE env.euid

\* os.UserHomeDir: $HOME.
UserHomeDir(env) == env.home
\* paths.HomeDir: the home of SUDO_USER when it is set and known, else $HOME.
HomeDir(env) ==
    IF env.sudoUser # NoSudoUser /\ env.lookup THEN HomeOf(env.sudoUser)
    ELSE UserHomeDir(env)
CacheDir(env) == <<HomeDir(env), ".cache/raycoon">>

Artefacts == {"database", "pidfile", "statefile", "stopfile"}
\* app.New: filepath.Join(os.UserHomeDir(), ".local", "share", "raycoon", "raycoon.db")
dbPath(env) == <<UserHomeDir(env), ".local/share/raycoon", "raycoon.db">>
\* xray.New: filepath.Join(paths.CacheDir(), "xray.pid")
pidPath(env) == CacheDir(env) \o <<"xray.pid">>
\* stateFilePath: filepath.Join(os.UserHomeDir(), ".cache", "raycoon", "tun.state")
stateFilePath(env) == <<UserHomeDir(env), ".cache/raycoon", "tun.state">>
\* stopFilePath: filepath.Join(paths.CacheDir(), "tun.stop")
stopFilePath(env) == CacheDir(env) \o <<"tun.stop">>
PathOf(a, env) ==
    CASE a = "database" -> dbPath(env)
      [] a = "pidfile" -> pidPath(env)
      [] a = "statefile" -> stateFilePath(env)
      [] a = "stopfile" -> stopFilePath(env)

\* pa.env: the environment of the running invocation; pa.files: the paths
\* that exist, each with the user who invoked the command that wrote it and
\* whether that command ran elevated; pa.looked: what the running invocation
\* resolved last and whether it found a file there.
NoEnv == [euid |-> "none", home |-> "", sudoUser |-> NoSudoUser, lookup |-> TRUE]
NoLook == [artefact |-> "none", path |-> << >>, found |-> FALSE]
PathsIdle == [env |-> NoEnv, files |-> {}, looked |-> NoLook]

\* A command is started in some environment.
Invoke(env) ==
    /\ pa' = [pa EXCEPT !.env = env, !.looked = NoLook]
    /\ PathsOnly

\* The running invocation writes an artefact at the path it resolves.  The
\* database is opened (and created) by every command; the PID file, the
\* state file and the stop file are written by connect, by the daemon it
\* spawns and by disconnect.
WriteArtefact(a) ==
    /\ pa.env # NoEnv
    /\ a \in {"statefile"} => Elevated(pa.env)
    /\ LET f == [artefact |-> a, path |-> PathOf(a, pa.env),
                 by |-> Invoker(pa.env), elevated |-> Elevated(pa.env)]
       IN /\ Cardinality(pa.files \cup {f}) <= MaxFiles
          /\ pa' = [pa EXCEPT !.files = @ \cup {f}]
    /\ PathsOnly

\* The running invocation looks for an artefact at the path it resolves.
ResolveArtefact(a) ==
    /\ pa.env # NoEnv
    /\ pa' = [pa EXCEPT !.looked =
                [artefact |-> a, path |-> PathOf(a, pa.env),
                 found |-> \E f \in pa.files : f.artefact = a /\ f.path = PathOf(a, pa.env)]]
    /\ PathsOnly

---------------------------------------------------------------------------
(* Share-link parsers: Registry.Parse and the Parse / Encode of VMess,
   VLESS, Trojan and Shadowsocks (package parser) *)

\* Text is a sequence of one-character strings.
Digits == <<"0", "1", "2", "3", "4", "5", "6", "7", "8", "9">>
IsDigit(c) == \E d \in 1..10 : Digits[d] = c
DigitVal(c) == (CHOOSE d \in 1..10 : Digits[d] = c) - 1

RECURSIVE DigitsVal(_)
DigitsVal(s) ==
    IF s = << >> THEN 0 ELSE 10 * DigitsVal(SubSeq(s, 1, Len(s) - 1)) + DigitVal(s[Len(s)])
AllDigits(s) == \A k \in 1..Len(s) : IsDigit(s[k])

\* strconv.Atoi: an optional sign, then one or more decimal digits.
Atoi(s) ==
    LET signed == s # << >> /\ s[1] \in {"+", "-"}
        body == IF signed THEN Tail(s) ELSE s
    IN IF body = << >> \/ ~AllDigits(body) THEN [ok |-> FALSE, n |-> 0]
       ELSE [ok |-> TRUE,
             n |-> IF signed /\ s[1] = "-" THEN 0 - DigitsVal(body) ELSE DigitsVal(body)]

\* The %d of fmt.Sprintf.
RECURSIVE Itoa(_)
Itoa(n) ==
    IF n < 0 THEN <<"-">> \o Itoa(0 - n)
    ELSE IF n < 10 THEN <<Digits[n + 1]>>
    ELSE Itoa(n \div 10) \o <<Digits[(n % 10) + 1]>>

\* Percent-encoding (package net/url).  The escapes that occur here.
HexDigits == {"0", "1", "2", "3", "4", "5", "6", "7", "8", "9", "A", "B"}
Unhex(a, b) ==
    CASE a = "2" /\ b = "0" -> " "
      [] a = "2" /\ b = "5" -> "%"
      [] a = "2" /\ b = "B" -> "+"
      [] a = "3" /\ b = "A" -> ":"
      [] OTHER -> "?"
BadText == [ok |-> FALSE, s |-> << >>]

\* unescape: %XY is decoded and must be well formed; in a query component
\* "+" stands for a space, in a fragment it stands for itself.
RECURSIVE unescape(_, _)
unescape(s, query) ==
    IF s = << >> THEN [ok |-> TRUE, s |-> << >>]
    ELSE IF s[1] = "%"
         THEN IF Len(s) < 3 \/ s[2] \notin HexDigits \/ s[3] \notin HexDigits THEN BadText
              ELSE LET rest == unescape(SubSeq(s, 4, Len(s)), query)
                   IN IF rest.ok THEN [ok |-> TRUE, s |-> <<Unhex(s[2], s[3])>> \o rest.s]
                      ELSE BadText
         ELSE LET rest == unescape(Tail(s), query)
                  c == IF query /\ s[1] = "+" THEN " " ELSE s[1]
              IN IF rest.ok THEN [ok |-> TRUE, s |-> <<c>> \o rest.s] ELSE BadText
\* url.QueryUnescape, written as the parsers use it: the error is dropped
\* and the result of a failed call is the empty string.
QueryUnescape(s) == unescape(s, TRUE).s

\* url.QueryEscape.
RECURSIVE QueryEscape(_)
QueryEscape(s) ==
    IF s = << >> THEN << >>
    ELSE (CASE s[1] = " " -> <<"+">>
            [] s[1] = "%" -> <<"%", "2", "5">>
            [] s[1] = "+" -> <<"%", "2", "B">>
            [] s[1] = ":" -> <<"%", "3", "A">>
            [] OTHER -> <<s[1]>>) \o QueryEscape(Tail(s))
\* URL.EscapedFragment, for a URL built with Fragment set: "%" and the
\* space are escaped, "+" and ":" are not.
RECURSIVE EscapedFragment(_)
EscapedFragment(s) ==
    IF s = << >> THEN << >>
    ELSE (CASE s[1] = " " -> <<"%", "2", "0">>
            [] s[1] = "%" -> <<"%", "2", "5">>
            [] OTHER -> <<s[1]>>) \o EscapedFragment(Tail(s))

\* A share link, taken apart.  For the URL forms (vless, trojan): the
\* scheme, the user, the host, the port text, the query and the raw
\* fragment.  For vmess the fields of the JSON object under the base64
\* (id in user, add in host, ps in frag, the rest in q).  For shadowsocks
\* the base64 of method:password (method in user, password in q.password).
QKeys == {"type", "security", "flow", "path", "host", "serviceName", "mode", "key",
          "sni", "fp", "alpn", "pbk", "sid", "spx", "allowInsecure",
          "net", "tls", "scy", "password"}
NoQuery == [k \in QKeys |-> ""]
Q(set) == [k \in QKeys |-> IF k \in DOMAIN set THEN set[k] ELSE ""]
\* A JSON value that is a number, a string or absent; a port of a URL is text.
Num(n) == [t |-> "num", n |-> n, s |-> << >>]
Text(s) == [t |-> "text", n |-> 0, s |-> s]
Nil == [t |-> "nil", n |-> 0, s |-> << >>]

NoTransport ==
    [wsPath |-> "", wsHost |-> "", grpcServiceName |-> "", grpcMode |-> "",
     httpPath |-> "", httpHost |-> "", quicKey |-> "", quicSecurity |-> ""]
NoTLS ==
    [serverName |-> "", fingerprint |-> "", alpn |-> "", publicKey |-> "",
     shortID |-> "", spiderX |-> "", allowInsecure |-> FALSE]
NoAuth ==
    [uuid |-> "", flow |-> "", password |-> "", alterID |-> 0, security |-> "", method |-> ""]
\* The result of a failed Parse.
Rejected ==
    [ok |-> FALSE, name |-> << >>, protocol |-> "", address |-> "", port |-> 0,
     network |-> "", auth |-> NoAuth, transport |-> NoTransport,
     tlsEnabled |-> FALSE, tls |-> NoTLS]
\* The result of a failed Encode.
NoURI ==
    [scheme |-> "", enc |-> "none", user |-> "", host |-> "", port |-> Nil, aid |-> Nil,
     q |-> NoQuery, frag |-> << >>]

\* url.Parse on a URL form: the port is empty or digits, the fragment is
\* well escaped.
urlParseOK(u) ==
    /\ u.port.t = "text" /\ AllDigits(u.port.s)
    /\ unescape(u.frag, FALSE).ok
\* URL.Fragment after url.Parse.
Fragment(u) == unescape(u.frag, FALSE).s
\* fmt.Sprintf("%s:%d", config.Address, config.Port)
DefaultName(address, port) == <<address, ":">> \o Itoa(port)

\* The transport settings the URL parsers read for a network; full: the
\* http and quic cases, which VLESS has and Trojan has not.
URLTransport(network, q, full) ==
    CASE network = "ws" -> [NoTransport EXCEPT !.wsPath = q["path"], !.wsHost = q["host"]]
      [] network = "grpc" ->
           [NoTransport EXCEPT !.grpcServiceName = q["serviceName"], !.grpcMode = q["mode"]]
      [] network \in {"http", "h2"} /\ full ->
           [NoTransport EXCEPT !.httpPath = q["path"], !.httpHost = q["host"]]
      [] network = "quic" /\ full ->
           [NoTransport EXCEPT !.quicKey = q["key"], !.quicSecurity = q["security"]]
      [] OTHER -> NoTransport

\* VLESSParser.Parse
VLESSParse(u) ==
    IF u.scheme # "vless" \/ ~urlParseOK(u) \/ u.user = "" \/ u.host = "" \/ u.port.s = << >>
       \/ ~Atoi(u.port.s).ok
    THEN Rejected
    ELSE LET port == Atoi(u.port.s).n
             network == IF u.q["type"] = "" THEN "tcp" ELSE u.q["type"]
             security == u.q["security"]
             enabled == security \in {"tls", "reality"}
             reality == security = "reality"
         IN [ok |-> TRUE,
             name |-> IF Fragment(u) = << >> THEN DefaultName(u.host, port)
                      ELSE QueryUnescape(Fragment(u)),
             protocol |-> "vless", address |-> u.host, port |-> port, network |-> network,
             auth |-> [NoAuth EXCEPT !.uuid = u.user, !.flow = u.q["flow"]],
             transport |-> URLTransport(network, u.q, TRUE),
             tlsEnabled |-> enabled,
             tls |-> IF ~enabled THEN NoTLS
                     ELSE [NoTLS EXCEPT !.serverName = u.q["sni"], !.fingerprint = u.q["fp"],
                                        !.alpn = u.q["alpn"],
                                        !.publicKey = IF reality THEN u.q["pbk"] ELSE "",
                                        !.shortID = IF reality THEN u.q["sid"] ELSE "",
                                        !.spiderX = IF reality THEN u.q["spx"] ELSE ""]]

\* The query the URL encoders write for the transport of a network.
URLTransportQuery(e, full) ==
    LET t == e.transport
    IN CASE e.network = "ws" -> [path |-> t.wsPath, host |-> t.wsHost]
         [] e.network = "grpc" -> [serviceName |-> t.grpcServiceName, mode |-> t.grpcMode]
         [] e.network \in {"http", "h2"} /\ full -> [path |-> t.httpPath, host |-> t.httpHost]
         [] e.network = "quic" /\ full -> [key |-> t.quicKey, security |-> t.quicSecurity]
         [] OTHER -> [type |-> ""]

\* VLESSParser.Encode: the transport's keys first, then the TLS keys, which
\* overwrite "security".
VLESSEncode(e) ==
    LET tq == URLTransportQuery(e, TRUE)
        security ==
            IF e.tlsEnabled THEN (IF e.tls.publicKey # "" THEN "reality" ELSE "tls")
            ELSE IF "security" \in DOMAIN tq THEN tq["security"] ELSE ""
        sq == IF e.tlsEnabled
              THEN [security |-> security, sni |-> e.tls.serverName, fp |-> e.tls.fingerprint,
                    alpn |-> e.tls.alpn, pbk |-> e.tls.publicKey, sid |-> e.tls.shortID,
                    spx |-> e.tls.spiderX]
              ELSE [security |-> security]
        q == [k \in QKeys |->
                CASE k = "type" -> IF e.network # "tcp" THEN e.network ELSE ""
                  [] k = "flow" -> e.auth.flow
                  [] k \in DOMAIN sq \ {"type", "flow"} -> sq[k]
                  [] k \in DOMAIN tq \ (DOMAIN sq \cup {"type", "flow"}) -> tq[k]
                  [] OTHER -> ""]
    IN [scheme |-> "vless", enc |-> "none", user |-> e.auth.uuid, host |-> e.address,
        port |-> Text(Itoa(e.port)), aid |-> Nil, q |-> q,
        frag |-> EscapedFragment(QueryEscape(e.name))]

\* TrojanParser.Parse
TrojanParse(u) ==
    IF u.scheme # "trojan" \/ ~urlParseOK(u) \/ u.user = "" \/ u.host = "" \/ u.port.s = << >>
       \/ ~Atoi(u.port.s).ok
    THEN Rejected
    ELSE LET port == Atoi(u.port.s).n
             network == IF u.q["type"] = "" THEN "tcp" ELSE u.q["type"]
             enabled == u.q["security"] # "none"
         IN [ok |-> TRUE,
             name |-> IF Fragment(u) = << >> THEN DefaultName(u.host, port)
                      ELSE QueryUnescape(Fragment(u)),
             protocol |-> "trojan", address |-> u.host, port |-> port, network |-> network,
             auth |-> [NoAuth EXCEPT !.password = u.user],
             transport |-> URLTransport(network, u.q, FALSE),
             tlsEnabled |-> enabled,
             tls |-> IF ~enabled THEN NoTLS
                     ELSE [NoTLS EXCEPT !.serverName = IF u.q["sni"] = "" THEN u.host ELSE u.q["sni"],
                                        !.alpn = u.q["alpn"], !.fingerprint = u.q["fp"],
                                        !.allowInsecure = u.q["allowInsecure"] \in {"1", "true"}]]

\* TrojanParser.Encode
TrojanEncode(e) ==
    LET tq == URLTransportQuery(e, FALSE)
        sq == IF e.tlsEnabled
              THEN [sni |-> e.tls.serverName, fp |-> e.tls.fingerprint, alpn |-> e.tls.alpn,
                    allowInsecure |-> IF e.tls.allowInsecure THEN "1" ELSE ""]
              ELSE [security |-> "none"]
        q == [k \in QKeys |->
                CASE k = "type" -> IF e.network # "tcp" THEN e.network ELSE ""
                  [] k \in DOMAIN sq \ {"type"} -> sq[k]
                  [] k \in DOMAIN tq \ (DOMAIN sq \cup {"type"}) -> tq[k]
                  [] OTHER -> ""]
    IN [scheme |-> "trojan", enc |-> "none", user |-> e.auth.password, host |-> e.address,
        port |-> Text(Itoa(e.port)), aid |-> Nil, q |-> q,
        frag |-> EscapedFragment(QueryEscape(e.name))]

\* parsePort: a JSON number is taken as it is, a string goes through Atoi,
\* an absent port is an error.
parsePort(p) ==
    CASE p.t = "num" -> [ok |-> TRUE, n |-> p.n]
      [] p.t = "text" -> Atoi(p.s)
      [] OTHER -> [ok |-> FALSE, n |-> 0]
\* parseAlterID: as parsePort, but an absent or empty value is 0.
parseAlterID(a) ==
    CASE a.t = "nil" -> [ok |-> TRUE, n |-> 0]
      [] a.t = "num" -> [ok |-> TRUE, n |-> a.n]
      [] OTHER -> IF a.s = << >> THEN [ok |-> TRUE, n |-> 0] ELSE Atoi(a.s)

\* The base64 alphabets Parse accepts, in the order it tries them.
Base64Accepted == {"rawurl", "rawstd", "std"}

\* VMessParser.Parse
VMessParse(u) ==
    IF u.scheme # "vmess" \/ u.enc \notin Base64Accepted
       \/ ~parsePort(u.port).ok \/ ~parseAlterID(u.aid).ok
    THEN Rejected
    ELSE LET port == parsePort(u.port).n
             network == IF u.q["net"] = "" THEN "tcp" ELSE u.q["net"]
             enabled == u.q["tls"] = "tls"
         IN [ok |-> TRUE,
             name |-> IF u.frag = << >> THEN DefaultName(u.host, port) ELSE u.frag,
             protocol |-> "vmess", address |-> u.host, port |-> port, network |-> network,
             auth |-> [NoAuth EXCEPT !.uuid = u.user, !.alterID = parseAlterID(u.aid).n,
                                     !.security = IF u.q["scy"] = "" THEN "auto" ELSE u.q["scy"]],
             transport |->
                 CASE network = "ws" ->
                        [NoTransport EXCEPT !.wsPath = u.q["path"], !.wsHost = u.q["host"]]
                   [] network = "grpc" ->
                        [NoTransport EXCEPT !.grpcServiceName = u.q["path"], !.grpcMode = u.q["type"]]
                   [] network \in {"http", "h2"} ->
                        [NoTransport EXCEPT !.httpPath = u.q["path"], !.httpHost = u.q["host"]]
                   [] network = "quic" ->
                        [NoTransport EXCEPT !.quicKey = u.q["path"], !.quicSecurity = u.q["host"]]
                   [] OTHER -> NoTransport,
             tlsEnabled |-> enabled,
             tls |-> IF ~enabled THEN NoTLS
                     ELSE [NoTLS EXCEPT !.serverName = u.q["sni"], !.fingerprint = u.q["fp"],
                                        !.alpn = u.q["alpn"]]]

\* VMessParser.Encode
VMessEncode(e) ==
    LET t == e.transport
        tq == CASE e.network = "ws" -> [path |-> t.wsPath, host |-> t.wsHost]
                [] e.network = "grpc" -> [path |-> t.grpcServiceName, type |-> t.grpcMode]
                [] e.network \in {"http", "h2"} -> [path |-> t.httpPath, host |-> t.httpHost]
                [] e.network = "quic" -> [path |-> t.quicKey, host |-> t.quicSecurity]
                [] OTHER -> [path |-> ""]
        sq == IF e.tlsEnabled
              THEN [tls |-> "tls", sni |-> e.tls.serverName, fp |-> e.tls.fingerprint,
                    alpn |-> e.tls.alpn]
              ELSE [tls |-> ""]
        q == [k \in QKeys |->
                CASE k = "net" -> e.network
                  [] k = "scy" -> e.auth.security
                  [] k \in DOMAIN sq \ {"net", "scy"} -> sq[k]
                  [] k \in DOMAIN tq \ (DOMAIN sq \cup {"net", "scy"}) -> tq[k]
                  [] OTHER -> ""]
    IN [scheme |-> "vmess", enc |-> "rawurl", user |-> e.auth.uuid, host |-> e.address,
        port |-> Num(e.port), aid |-> Num(e.auth.alterID), q |-> q, frag |-> e.name]

\* ShadowsocksParser.Parse: the remark is cut off at "#" and unescaped as a
\* query component (a failure gives the empty remark), the rest is
\* base64(method:password)@address:port.
ShadowsocksParse(u) ==
    IF u.scheme \notin {"ss", "shadowsocks"} \/ u.enc \notin Base64Accepted
       \/ u.port.t # "text" \/ ~Atoi(u.port.s).ok
    THEN Rejected
    ELSE LET port == Atoi(u.port.s).n
             remark == QueryUnescape(u.frag)
         IN [ok |-> TRUE,
             name |-> IF remark = << >> THEN DefaultName(u.host, port) ELSE remark,
             protocol |-> "shadowsocks", address |-> u.host, port |-> port, network |-> "tcp",
             auth |-> [NoAuth EXCEPT !.method = u.user, !.password = u.q["password"]],
             transport |-> NoTransport, tlsEnabled |-> FALSE, tls |-> NoTLS]

\* ShadowsocksParser.Encode
ShadowsocksEncode(e) ==
    [scheme |-> "ss", enc |-> "rawurl", user |-> e.auth.method, host |-> e.address,
     port |-> Text(Itoa(e.port)), aid |-> Nil,
     q |-> [NoQuery EXCEPT !["password"] = e.auth.password],
     frag |-> QueryEscape(e.name)]

\* Registry.AutoDetect: the parser registered for the scheme, with the
\* aliases ss and hy2.  hysteria2, tuic and wireguard are registered, and
\* their Parse is not implemented.
AutoDetect(u) ==
    CASE u.scheme = "ss" -> "shadowsocks"
      [] u.scheme = "hy2" -> "hysteria2"
      [] u.scheme \in {"vmess", "vless", "trojan", "shadowsocks", "hysteria2", "tuic", "wireguard"} ->
           u.scheme
      [] OTHER -> "unsupported"
\* Registry.Parse
RegistryParse(u) ==
    LET p == AutoDetect(u)
    IN CASE p = "vless" -> VLESSParse(u)
         [] p = "trojan" -> TrojanParse(u)
         [] p = "vmess" -> VMessParse(u)
         [] p = "shadowsocks" -> ShadowsocksParse(u)
         [] OTHER -> Rejected
\* The Encode of the endpoint's protocol.
EncodeOf(e) ==
    CASE e.protocol = "vless" -> VLESSEncode(e)
      [] e.protocol = "trojan" -> TrojanEncode(e)
      [] e.protocol = "vmess" -> VMessEncode(e)
      [] e.protocol = "shadowsocks" -> ShadowsocksEncode(e)
      [] OTHER -> NoURI

\* The Parse of a protocol.
ParseOf(protocol, u) ==
    CASE protocol = "vless" -> VLESSParse(u)
      [] protocol = "trojan" -> TrojanParse(u)
      [] protocol = "vmess" -> VMessParse(u)
      [] protocol = "shadowsocks" -> ShadowsocksParse(u)
      [] OTHER -> Rejected

\* The links that are parsed.
PortTexts ==
    {<<"0">>, <<"1">>, <<"4", "4", "3">>, <<"6", "5", "5", "3", "5">>,
     <<"6", "5", "5", "3", "6">>, << >>, <<"-", "1">>, <<"x">>}
RawFrags ==
    {<< >>, <<"n">>, <<"a", "+", "b">>, <<"a", "%", "2", "0", "b">>,
     <<"1", "%", "2", "5">>, <<"%">>}
VLESSInputs ==
    {[scheme |-> "vless", enc |-> "none", user |-> "u", host |-> "h", port |-> Text(p),
      aid |-> Nil, q |-> Q([type |-> t, security |-> s, pbk |-> k, sid |-> d, sni |-> "s"]),
      frag |-> f] :
       p \in PortTexts, t \in {"", "ws", "quic"}, s \in {"", "none", "tls", "reality"},
       k \in {"", "K"}, d \in {"", "ab"}, f \in RawFrags}
TrojanInputs ==
    {[scheme |-> "trojan", enc |-> "none", user |-> "pw", host |-> "h", port |-> Text(p),
      aid |-> Nil, q |-> Q([type |-> t, security |-> s, sni |-> n, path |-> "/p"]),
      frag |-> f] :
       p \in PortTexts, t \in {"", "ws", "grpc"}, s \in {"", "none", "tls"},
       n \in {"", "s"}, f \in RawFrags}
VMessInputs ==
    {[scheme |-> "vmess", enc |-> c, user |-> "u", host |-> "h", port |-> p,
      aid |-> a, q |-> Q([net |-> t, tls |-> s, host |-> "x", path |-> "/p"]),
      frag |-> f] :
       c \in {"rawurl", "std", "bad"},
       p \in {Num(0), Num(443), Num(65536), Text(<<"4", "4", "3">>), Text(<<"0">>), Nil},
       a \in {Nil, Num(0), Text(<< >>), Text(<<"1">>)},
       t \in {"", "ws", "quic"}, s \in {"", "tls"}, f \in {<< >>, <<"n">>, <<"a", " ", "b">>}}
ShadowsocksInputs ==
    {[scheme |-> m, enc |-> c, user |-> "aes-256-gcm", host |-> "h", port |-> Text(p),
      aid |-> Nil, q |-> Q([password |-> "pw"]), frag |-> f] :
       m \in {"ss", "shadowsocks"}, c \in {"rawurl", "std", "bad"},
       p \in PortTexts, f \in RawFrags}
OtherInputs ==
    {[scheme |-> m, enc |-> "none", user |-> u, host |-> h, port |-> Text(<<"4", "4", "3">>),
      aid |-> Nil, q |-> NoQuery, frag |-> << >>] :
       m \in {"vless", "trojan", "hy2", "wireguard", "http"}, u \in {"", "u"}, h \in {"", "h"}}
URIInputs == VLESSInputs \cup TrojanInputs \cup VMessInputs \cup ShadowsocksInputs \cup OtherInputs

\* pr.uri: the link given; pr.e: what Registry.Parse made of it; pr.uri2:
\* the Encode of pr.e; pr.e2: the Parse of pr.uri2.
ParseIdle == [pc |-> "idle", uri |-> NoURI, e |-> Rejected, uri2 |-> NoURI, e2 |-> Rejected]
ParseNew(u) == [ParseIdle EXCEPT !.pc = "new", !.uri = u]

\* config add and UpdateGroup hand the link to Registry.Parse and store the
\* endpoint it returns.
ParseURI ==
    /\ pr.pc = "new"
    /\ LET e == RegistryParse(pr.uri)
       IN pr' = [pr EXCEPT !.pc = IF e.ok THEN "parsed" ELSE "rejected", !.e = e]
    /\ ParseOnly

\* The endpoint is written back as a link by its protocol's Encode.
EncodeEndpoint ==
    /\ pr.pc = "parsed"
    /\ pr' = [pr EXCEPT !.pc = "encoded", !.uri2 = EncodeOf(pr.e)]
    /\ ParseOnly

\* The link is read again by the same protocol's Parse.
ParseEncoded ==
    /\ pr.pc = "encoded"
    /\ pr' = [pr EXCEPT !.pc = "done", !.e2 = ParseOf(pr.e.protocol, pr.uri2)]
    /\ ParseOnly

---------------------------------------------------------------------------
(* Tunnel daemon, one command at a time: the setup of RunDaemon, its failure
   branches and its cleanup (part_013), over the route and DNS commands of
   package tun *)

\* The routing table is a set of routes; run("route", "add", ...) adds one
\* and fails when the destination has a route already or the command fails,
\* run("route", "delete", ...) removes the routes of a destination.
Route(dest, via) == [dest |-> dest, via |-> via]
HasRoute(t, dest) == \E r \in t : r.dest = dest
RouteAdd(t, dest, via) == t \cup {Route(dest, via)}
RouteDelete(t, dest) == {r \in t : r.dest # dest}

\* The network services of activeNetworkServices.
ServiceLists == {<<"Wi-Fi">>, <<"Wi-Fi", "Ethernet">>}
\* The addresses given with --bypass: the address of the endpoint, and a
\* second one at most.
RemoteAddrLists == {<<ServerAddr>>, <<ServerAddr, "203.0.113.8">>}
\* allBypasses := append(remoteAddrs, tunDNS, "1.1.1.1") (lines 110-112).
BypassList(remoteAddrs) == remoteAddrs \o <<tunDNS, "1.1.1.1">>
Range(seq) == {seq[k] : k \in 1..Len(seq)}

\* The source holds two definitions of setDefaultRouteTUN: the one of
\* cleanup.go adds the routes 0/1 and 128/1 via tunGateway, the one of
\* route_darwin.go deletes the default route and adds a default route via
\* tunGateway.  rs.build tells which one RunDaemon is linked with.
Builds == {"overlay", "replace"}

\* rs.pc: the command RunDaemon is about to run; rs.i: the index in the
\* loop of addBypassRoutes or configureDNS; rs.undo: "no" during the setup,
\* "failed" in a failure branch, "stop" in the cleanup after the wait loop;
\* rs.table, rs.dnsSet (the services whose DNS is tunDNS), rs.engine and
\* rs.state (the state file exists): the system.
SetupIdle ==
    [pc |-> "idle", i |-> 0, undo |-> "no", build |-> "overlay",
     addrs |-> << >>, services |-> << >>,
     table |-> {Route("default", OrigGateway)}, dnsSet |-> {},
     engine |-> FALSE, state |-> FALSE, ret |-> "none"]
\* RunDaemon after engine.Start and the discovery of the device (lines 31-96).
SetupNew(build, remoteAddrs, services) ==
    [SetupIdle EXCEPT !.pc = "address", !.build = build, !.addrs = BypassList(remoteAddrs),
                      !.services = services, !.engine = TRUE]

\* RunDaemon returns: the failure branches end with engine.Stop, the cleanup
\* with engine.Stop and removeState.
Returned(r, ret) == [r EXCEPT !.pc = "returned", !.ret = ret, !.i = 0]

\* configureTUNAddress (lines 98-104).
SetupAddress(ok) ==
    /\ rs.pc = "address"
    /\ rs' = IF ok THEN [rs EXCEPT !.pc = "bypass", !.i = 1]
             ELSE Returned([rs EXCEPT !.engine = FALSE, !.undo = "failed"], "error")
    /\ SetupOnly

\* One turn of the loop of addBypassRoutes; on a failure the function
\* returns at once and the branch of lines 115-119 stops the engine.
SetupBypass(ok) ==
    /\ rs.pc = "bypass"
    /\ ok => ~HasRoute(rs.table, rs.addrs[rs.i])
    /\ rs' = IF ok
             THEN [rs EXCEPT !.table = RouteAdd(@, rs.addrs[rs.i], OrigGateway),
                             !.pc = IF rs.i = Len(rs.addrs) THEN "route1" ELSE @,
                             !.i = IF rs.i = Len(rs.addrs) THEN 0 ELSE @ + 1]
             ELSE Returned([rs EXCEPT !.engine = FALSE, !.undo = "failed"], "error")
    /\ SetupOnly

\* The first command of setDefaultRouteTUN: route add 0/1 (cleanup.go),
\* route delete default (route_darwin.go).  On a failure the branch of
\* lines 123-128 removes the bypass routes and stops the engine.
SetupRouteFirst(ok) ==
    /\ rs.pc = "route1"
    /\ rs' = IF ~ok THEN [rs EXCEPT !.pc = "u_bypass", !.undo = "failed"]
             ELSE IF rs.build = "overlay"
             THEN [rs EXCEPT !.table = RouteAdd(@, "0/1", tunGateway), !.pc = "route2"]
             ELSE [rs EXCEPT !.table = RouteDelete(@, "default"), !.pc = "route2"]
    /\ SetupOnly

\* The second command: route add 128/1, with route delete 0/1 when it fails
\* (cleanup.go); route add default tunGateway (route_darwin.go).
SetupRouteSecond(ok) ==
    /\ rs.pc = "route2"
    /\ rs' = IF rs.build = "overlay"
             THEN IF ok THEN [rs EXCEPT !.table = RouteAdd(@, "128/1", tunGateway),
                                        !.pc = "dns", !.i = 1]
                  ELSE [rs EXCEPT !.table = RouteDelete(@, "0/1"),
                                  !.pc = "u_bypass", !.undo = "failed"]
             ELSE IF ok THEN [rs EXCEPT !.table = RouteAdd(@, "default", tunGateway),
                                        !.pc = "dns", !.i = 1]
                  ELSE [rs EXCEPT !.pc = "u_bypass", !.undo = "failed"]
    /\ SetupOnly

\* One turn of the loop of configureDNS; on a failure the function returns
\* at once and the branch of lines 133-139 starts at restoreDefaultRoute.
SetupDNS(ok) ==
    /\ rs.pc = "dns"
    /\ rs' = IF ok
             THEN [rs EXCEPT !.dnsSet = @ \cup {rs.services[rs.i]},
                             !.pc = IF rs.i = Len(rs.services) THEN "save" ELSE @,
                             !.i = IF rs.i = Len(rs.services) THEN 0 ELSE @ + 1]
             ELSE [rs EXCEPT !.pc = "u_route", !.undo = "failed", !.i = 0]
    /\ SetupOnly

\* saveState (lines 146-153); its failure branch starts at restoreDNS.
SetupSaveState(ok) ==
    /\ rs.pc = "save"
    /\ rs' = IF ok THEN [rs EXCEPT !.state = TRUE, !.pc = "wait"]
             ELSE [rs EXCEPT !.pc = "u_dns", !.undo = "failed"]
    /\ SetupOnly

\* The wait loop ends on the stop file or a signal (lines 164-174).
SetupWaitEnds ==
    /\ rs.pc = "wait"
    /\ rs' = [rs EXCEPT !.pc = "u_dns", !.undo = "stop"]
    /\ SetupOnly

\* restoreDNS: every service is set to "empty".
UndoDNS ==
    /\ rs.pc = "u_dns"
    /\ rs' = [rs EXCEPT !.dnsSet = {}, !.pc = "u_route"]
    /\ SetupOnly

\* restoreDefaultRoute up to its route delete default: the routes 0/1 and
\* 128/1 and the default route are deleted.
UndoRouteDelete ==
    /\ rs.pc = "u_route"
    /\ rs' = [rs EXCEPT !.table = RouteDelete(RouteDelete(RouteDelete(@, "0/1"), "128/1"),
                                              "default"),
                        !.pc = "u_default"]
    /\ SetupOnly

\* restoreDefaultRoute's route add default gateway; RunDaemon drops its error.
UndoRouteAdd(ok) ==
    /\ rs.pc = "u_default"
    /\ rs' = [rs EXCEPT !.table = IF ok THEN RouteAdd(@, "default", OrigGateway) ELSE @,
                        !.pc = "u_bypass"]
    /\ SetupOnly

\* removeBypassRoutes(allBypasses).
UndoBypass ==
    /\ rs.pc = "u_bypass"
    /\ rs' = [rs EXCEPT !.table = {r \in @ : r.dest \notin Range(rs.addrs)},
                        !.pc = "u_engine"]
    /\ SetupOnly

\* engine.Stop, then the return of an error, or removeState and the return
\* of nil.
UndoEngine ==
    /\ rs.pc = "u_engine"
    /\ rs' = IF rs.undo = "stop"
             THEN Returned([rs EXCEPT !.engine = FALSE, !.state = FALSE], "nil")
             ELSE Returned([rs EXCEPT !.engine = FALSE], "error")
    /\ SetupOnly

---------------------------------------------------------------------------
(* Ephemeral engines of the HTTP probe: HTTPStrategy.Test and freePort
   (http_strategy.go), the listeners of a generated configuration
   (config.go) *)

\* Probes that may run at once (the workers of a batch).
MaxProbes == 2

Probes == 1..MaxProbes

\* The port of the api-in inbound in every generated configuration.
statsAPIPort == "10085"

\* The ports of the connected main engine's SOCKS and HTTP inbounds.
MainSOCKSPort == "1080"
MainHTTPPort == "1081"

\* Ports the system hands to a listener on port 0.
EphemeralPorts == {"49152", "49153", "49154"}

NoPort == "none"

\* generateXrayConfig (lines 178-246): the local ports the inbounds of the
\* configuration listen on: api-in, socks-in and http-in.
generateXrayConfig(socksPort, httpPort) == {statsAPIPort, socksPort, httpPort}

\* A configuration without the api-in inbound.
generateXrayConfigNoAPI(socksPort, httpPort) == {socksPort, httpPort}

ProbeIdle == [pc |-> "idle", socks |-> NoPort, http |-> NoPort, ports |-> {}, bound |-> {}]

PortsIdle == [main |-> [on |-> FALSE, ports |-> {}, bound |-> {}],
              probe |-> [i \in Probes |-> ProbeIdle]]

\* The ports some process listens on.
Listening ==
    hp.main.bound \cup UNION {hp.probe[i].bound : i \in Probes}

\* freePort (lines 144-152): a listener on port 0 gets a port nobody
\* listens on, and is closed before the port is returned.
freePort == EphemeralPorts \ Listening

\* connect: the main engine starts with the configuration generated for
\* its own ports and listens on those that are free.
MainStart ==
    /\ PortsOnly
    /\ ~hp.main.on
    /\ LET cfg == generateXrayConfig(MainSOCKSPort, MainHTTPPort)
       IN  hp' = [hp EXCEPT !.main = [on |-> TRUE, ports |-> cfg,
                                      bound |-> cfg \ Listening]]

\* disconnect: the main engine is stopped.
MainStop ==
    /\ PortsOnly
    /\ hp.main.on
    /\ hp' = [hp EXCEPT !.main = [on |-> FALSE, ports |-> {}, bound |-> {}]]

\* Test, line 42: the first freePort.
ProbeSocksPort(i, p) ==
    /\ PortsOnly
    /\ hp.probe[i].pc = "idle"
    /\ p \in freePort
    /\ hp' = [hp EXCEPT !.probe[i] = [ProbeIdle EXCEPT !.pc = "socks", !.socks = p]]

\* Test, line 46: the second freePort.
ProbeHTTPPort(i, p) ==
    /\ PortsOnly
    /\ hp.probe[i].pc = "socks"
    /\ p \in freePort
    /\ hp' = [hp EXCEPT !.probe[i].pc = "http", !.probe[i].http = p]

\* Test, lines 52-94: the configuration is generated and written and the
\* instance started; it listens on the ports of its configuration that no
\* other process listens on.
ProbeStart(i) ==
    /\ PortsOnly
    /\ hp.probe[i].pc = "http"
    /\ LET cfg == generateXrayConfig(hp.probe[i].socks, hp.probe[i].http)
       IN  hp' = [hp EXCEPT !.probe[i].pc = "running",
                            !.probe[i].ports = cfg,
                            !.probe[i].bound = cfg \ Listening]

\* Test returns (lines 97-141): the deferred Kill and Wait end the instance.
ProbeEnd(i) ==
    /\ PortsOnly
    /\ hp.probe[i].pc = "running"
    /\ hp' = [hp EXCEPT !.probe[i] = ProbeIdle]

---------------------------------------------------------------------------
(* The due query on stored timestamps: getDueGroups (part_005), the
   next_update UpdateGroup writes (part_019) *)

\* Instants are counted in ticks from the start of the behaviour.
MaxInstant == 4

Instants == 0..MaxInstant

\* Offsets of the machine's time zone from UTC, in ticks: west of UTC, UTC
\* and east of it.
Zones == {0 - 2, 0, 2}

\* update_interval of the groups, in ticks.
Interval == 3

NullTime == << >>

\* A time.Time bound as a statement argument: the driver writes it as text
\* in the layout "2006-01-02 15:04:05.999999999-07:00", that is the wall
\* clock of the value's own location, then fraction and offset.
\* time.Now() is in the machine's zone.
TimeText(t, zone) == <<t + zone, zone>>

\* The instant a stored text stands for.
InstantOf(text) == text[1] - text[2]

\* datetime('now'): "YYYY-MM-DD HH:MM:SS", the wall clock of UTC.
DatetimeNow(now) == <<now>>

\* a <= b for TEXT values: bytewise, a proper prefix being the smaller.
TextLE(a, b) ==
    \/ a[1] < b[1]
    \/ a[1] = b[1] /\ Len(a) <= Len(b)

\* A comparison by the instants the values stand for.
InstantLE(a, b) == InstantOf(a) <= b[1]

\* The WHERE clause of getDueGroups (lines 279-281) on one row.
IsDueRow(g, now) ==
    /\ g.url
    /\ g.auto
    /\ (g.next = NullTime \/ TextLE(g.next, DatetimeNow(now)))

QueryGroups == 1..MaxDueGroups

\* Rows as createGroup leaves them (lines 91-99): next_update is NULL.
CreatedRows == [url : BOOLEAN, auto : BOOLEAN, next : {NullTime}]

QueryIdle == [g |-> [i \in QueryGroups |-> [url |-> FALSE, auto |-> FALSE, next |-> NullTime]],
              zone |-> 0, now |-> 0, asked |-> FALSE, out |-> {}]

\* A tick passes.
ClockTick ==
    /\ QueryOnly
    /\ gq.now < MaxInstant
    /\ gq' = [gq EXCEPT !.now = @ + 1, !.asked = FALSE]

\* UpdateGroup, lines 121-130: with auto-update the next update is
\* time.Now() plus the interval, written by tx.UpdateGroup.
StampNextUpdate(i) ==
    /\ QueryOnly
    /\ gq.g[i].url
    /\ gq.g[i].auto
    /\ gq.now + Interval <= MaxInstant
    /\ gq' = [gq EXCEPT !.g[i].next = TimeText(gq.now + Interval, gq.zone),
                        !.asked = FALSE]

\* GetDueGroups (lines 274-303).
GetDueGroups ==
    /\ QueryOnly
    /\ gq' = [gq EXCEPT !.asked = TRUE,
                        !.out = {i \in QueryGroups : IsDueRow(gq.g[i], gq.now)}]

---------------------------------------------------------------------------
(* Engine supervisor seen from one process at a time: Manager.Start,
   Manager.Stop and Manager.Restart on one Xray struct, with the exit
   watcher goroutine every Start leaves behind, the exit of the process
   that holds the struct, and process ids the system hands out again
   (stats.go) *)

Pids == 1..MaxPid

\* The stages of the goroutine of lines 344-350: in cmd.Wait, past the
\* store of running = 0, past the removal of the PID file.
WatchIdle ==
    [alive |-> {}, foreign |-> {}, launched |-> 0, running |-> 0, pidFile |-> NoPid, cmd |-> NoPid,
     watcher |-> [p \in Pids |-> "off"],
     pc |-> "idle", op |-> "none",
     ret |-> [op |-> "none", ok |-> TRUE, pid |-> NoPid, alive |-> FALSE,
              foreign |-> FALSE]]

\* Signal 0 to the process the PID file names succeeds (lines 444-463):
\* some process of this user has that id.
PidFileAnswers(t) == t.pidFile \in t.alive \cup t.foreign

\* IsRunning (lines 438-463).
WIsRunning == xw.running = 1 \/ PidFileAnswers(xw)

\* The process Stop finds (lines 371-389): the handle of x.cmd, which
\* names the child this struct started and nothing else, or else whatever
\* process has the id in the PID file.
StopFinds(t) ==
    IF t.cmd # NoPid THEN [pid |-> t.cmd, byFile |-> FALSE]
    ELSE [pid |-> t.pidFile, byFile |-> TRUE]

\* Xray.Start from cmd.Start to the sleep (lines 326-353) on the struct t.
Launch(t, op) ==
    LET pid == t.launched + 1
    IN  [t EXCEPT !.alive = @ \cup {pid}, !.launched = pid,
                  !.running = 1, !.pidFile = pid, !.cmd = pid,
                  !.watcher[pid] = "wait",
                  !.pc = "sleep", !.op = op]

\* Xray.Stop (lines 367-423) on the struct t: the process of x.cmd, or of
\* the PID file, is interrupted and waited for, or killed after 5 s; then
\* the flag is cleared and the PID file removed.
Stopped(t) ==
    LET target == StopFinds(t)
    IN  [t EXCEPT !.alive = @ \ {target.pid},
                  !.foreign = IF target.byFile THEN @ \ {target.pid} ELSE @,
                  !.running = 0, !.pidFile = NoPid]

\* Manager.Start (lines 658-667) with IsRunning false, Xray.Start finding
\* running = 0 (line 261).
WatchStart ==
    /\ WatchOnly
    /\ xw.pc = "idle"
    /\ ~WIsRunning
    /\ xw.launched < MaxPid
    /\ xw' = Launch(xw, "Start")

\* Manager.Stop (lines 670-679) with IsRunning true.
WatchStop ==
    /\ WatchOnly
    /\ xw.pc = "idle"
    /\ WIsRunning
    /\ xw' = [Stopped(xw) EXCEPT
                !.ret = [op |-> "Stop", ok |-> TRUE, pid |-> StopFinds(xw).pid,
                         alive |-> FALSE,
                         foreign |-> /\ StopFinds(xw).byFile
                                     /\ StopFinds(xw).pid \in xw.foreign]]

\* Manager.Restart (lines 682-693): Stop when IsRunning, then Start at once.
WatchRestart ==
    /\ WatchOnly
    /\ xw.pc = "idle"
    /\ xw.launched < MaxPid
    /\ LET t == IF WIsRunning THEN Stopped(xw) ELSE xw
       IN  IF t.running = 1
           THEN xw' = [t EXCEPT !.ret = [op |-> "Restart", ok |-> FALSE, pid |-> NoPid,
                                        alive |-> FALSE, foreign |-> FALSE]]
           ELSE xw' = Launch(t, "Restart")

\* The check after the sleep (lines 355-363).
WatchStartCheck ==
    /\ WatchOnly
    /\ xw.pc = "sleep"
    /\ xw' = [xw EXCEPT !.pc = "idle",
                        !.ret = [op |-> xw.op, ok |-> xw.running # 0, pid |-> xw.cmd,
                                 alive |-> xw.cmd \in xw.alive, foreign |-> FALSE]]

\* The engine exits by itself.
WatchEngineExits(p) ==
    /\ WatchOnly
    /\ p \in xw.alive
    /\ xw' = [xw EXCEPT !.alive = @ \ {p}]

\* The goroutine started for process p: its cmd.Wait has returned and it
\* stores running = 0 (lines 346-347) ...
WatchReaps(p) ==
    /\ WatchOnly
    /\ xw.watcher[p] = "wait"
    /\ p \notin xw.alive
    /\ xw' = [xw EXCEPT !.watcher[p] = "close", !.running = 0]

\* ... and removes the PID file (line 349).
WatchRemoves(p) ==
    /\ WatchOnly
    /\ xw.watcher[p] = "close"
    /\ xw' = [xw EXCEPT !.watcher[p] = "off", !.pidFile = NoPid]

\* The process that holds the struct exits (a command returns, the TUI
\* quits): the next one starts from New (lines 227-254) with no cmd and the
\* flag clear, and no watcher is left; the engine, in a process group of
\* its own (line 299), and the PID file stay.
WatchCliExit ==
    /\ WatchOnly
    /\ xw.pc = "idle"
    /\ xw.cmd # NoPid
    /\ xw' = [xw EXCEPT !.running = 0, !.cmd = NoPid,
                        !.watcher = [p \in Pids |-> "off"]]

\* The system gives the id of an engine that has exited and been reaped to
\* an unrelated process of the same user.
WatchPidReused(p) ==
    /\ WatchOnly
    /\ p <= xw.launched
    /\ p \notin xw.alive \cup xw.foreign
    /\ xw.watcher[p] # "wait"
    /\ xw' = [xw EXCEPT !.foreign = @ \cup {p}]

---------------------------------------------------------------------------
(* Specifications *)

InitCatalog ==
    /\ db = InitDB
    /\ upd = Idle
    /\ last = NoOp
    /\ keepHome = TRUE
    /\ sfile = NoFile
    /\ stop = FALSE
    /\ routes = [bypass |-> {}, overlay |-> {}, default |-> OrigGateway]
    /\ dns = restoreDNS
    /\ ifaces = {SystemTUN}
    /\ dmn = DaemonOff
    /\ en = "idle"
    /\ dis = DisIdle
    /\ tret = NoRet
    /\ eng = NoEngine
    /\ pidFile = NoPid
    /\ x = FreshX
    /\ st = StIdle
    /\ w = "off"
    /\ sp = SpIdle
    /\ xret = NoXRet
    /\ ft = FetchIdle
    /\ dc = [content |-> << >>, done |-> FALSE, out |-> NoDecode]
    /\ due = DueIdle
    /\ tb = BatchIdle
    /\ sup = SupIdle
    /\ cn = ConnectIdle
    /\ pa = PathsIdle
    /\ hp = PortsIdle
    /\ gq = QueryIdle
    /\ xw = WatchIdle
    /\ pr = ParseIdle
    /\ rs = SetupIdle

NextCatalog ==
    \/ \E gid \in 1..MaxGroupId : UpdStart(gid)
    \/ UpdFetchFail
    \/ UpdDelete
    \/ UpdInsert
    \/ UpdUpdateGroup
    \/ UpdCommit
    \/ \E name \in GroupNames, url \in BOOLEAN, auto \in BOOLEAN, interval \in Intervals :
         GroupCreate(name, url, auto, interval)
    \/ \E id \in 1..MaxGroupId : DeleteGroup(id)
    \/ \E uri \in URIs, gname \in GroupNames : ConfigAdd(uri, gname)
    \/ \E id \in 1..MaxConfigId : ConfigDelete(id)
    \/ \E cid \in 1..MaxConfigId : SetActive(cid)
    \/ ClearActive

InitTun ==
    /\ db = InitDB
    /\ upd = Idle
    /\ last = NoOp
    /\ keepHome \in BOOLEAN
    /\ sfile = NoFile
    /\ stop = FALSE
    /\ routes = [bypass |-> {}, overlay |-> {}, default |-> OrigGateway]
    /\ dns = restoreDNS
    /\ ifaces = {SystemTUN}
    /\ dmn = DaemonOff
    /\ en = "idle"
    /\ dis = DisIdle
    /\ tret = NoRet
    /\ eng = NoEngine
    /\ pidFile = NoPid
    /\ x = FreshX
    /\ st = StIdle
    /\ w = "off"
    /\ sp = SpIdle
    /\ xret = NoXRet
    /\ ft = FetchIdle
    /\ dc = [content |-> << >>, done |-> FALSE, out |-> NoDecode]
    /\ due = DueIdle
    /\ tb = BatchIdle
    /\ sup = SupIdle
    /\ cn = ConnectIdle
    /\ pa = PathsIdle
    /\ hp = PortsIdle
    /\ gq = QueryIdle
    /\ xw = WatchIdle
    /\ pr = ParseIdle
    /\ rs = SetupIdle

NextTun ==
    \/ DaemonInit
    \/ DaemonDevice
    \/ DaemonSetup
    \/ DaemonSetupFails
    \/ DaemonSeesStop
    \/ DaemonSignalled
    \/ DaemonCleanup
    \/ DaemonKilled
    \/ \E priv \in BOOLEAN : EnableStart(priv)
    \/ EnableReady
    \/ EnableTimeout
    \/ \E priv \in BOOLEAN : DisableStart(priv)
    \/ DisableDone
    \/ DisableExpired
    \/ DisableDirect
    \/ \E priv \in BOOLEAN : AppStart(priv)

InitXray ==
    /\ db = InitDB
    /\ upd = Idle
    /\ last = NoOp
    /\ keepHome = TRUE
    /\ sfile = NoFile
    /\ stop = FALSE
    /\ routes = [bypass |-> {}, overlay |-> {}, default |-> OrigGateway]
    /\ dns = restoreDNS
    /\ ifaces = {SystemTUN}
    /\ dmn = DaemonOff
    /\ en = "idle"
    /\ dis = DisIdle
    /\ tret = NoRet
    /\ eng = NoEngine
    /\ pidFile = NoPid
    /\ x = FreshX
    /\ st = StIdle
    /\ w = "off"
    /\ sp = SpIdle
    /\ xret = NoXRet
    /\ ft = FetchIdle
    /\ dc = [content |-> << >>, done |-> FALSE, out |-> NoDecode]
    /\ due = DueIdle
    /\ tb = BatchIdle
    /\ sup = SupIdle
    /\ cn = ConnectIdle
    /\ pa = PathsIdle
    /\ hp = PortsIdle
    /\ gq = QueryIdle
    /\ xw = WatchIdle
    /\ pr = ParseIdle
    /\ rs = SetupIdle

NextXray ==
    \/ StartFailsEarly
    \/ StartLaunch
    \/ StartCheck
    \/ WatcherReaps
    \/ WatcherRemoves
    \/ EngineExits
    \/ EngineInterrupted
    \/ CliExit
    \/ StopBegin
    \/ StopDone
    \/ StopTimeout
    \/ ManagerStopRefused
    \/ DisconnectSkipsStop

InitFetch ==
    /\ db = InitDB
    /\ upd = Idle
    /\ last = NoOp
    /\ keepHome = TRUE
    /\ sfile = NoFile
    /\ stop = FALSE
    /\ routes = [bypass |-> {}, overlay |-> {}, default |-> OrigGateway]
    /\ dns = restoreDNS
    /\ ifaces = {SystemTUN}
    /\ dmn = DaemonOff
    /\ en = "idle"
    /\ dis = DisIdle
    /\ tret = NoRet
    /\ eng = NoEngine
    /\ pidFile = NoPid
    /\ x = FreshX
    /\ st = StIdle
    /\ w = "off"
    /\ sp = SpIdle
    /\ xret = NoXRet
    /\ ft = FetchIdle
    /\ dc = [content |-> << >>, done |-> FALSE, out |-> NoDecode]
    /\ due = DueIdle
    /\ tb = BatchIdle
    /\ sup = SupIdle
    /\ cn = ConnectIdle
    /\ pa = PathsIdle
    /\ hp = PortsIdle
    /\ gq = QueryIdle
    /\ xw = WatchIdle
    /\ pr = ParseIdle
    /\ rs = SetupIdle

NextFetch ==
    \/ \E n \in 0..MaxRetries : FetchCall(n)
    \/ FetchSend
    \/ \E o \in Outcomes \cup {"ctxerr"} : FetchRecv(o)
    \/ FetchWaitExpires
    \/ FetchWaitCancelled
    \/ FetchCancel

InitDecode ==
    /\ db = InitDB
    /\ upd = Idle
    /\ last = NoOp
    /\ keepHome = TRUE
    /\ sfile = NoFile
    /\ stop = FALSE
    /\ routes = [bypass |-> {}, overlay |-> {}, default |-> OrigGateway]
    /\ dns = restoreDNS
    /\ ifaces = {SystemTUN}
    /\ dmn = DaemonOff
    /\ en = "idle"
    /\ dis = DisIdle
    /\ tret = NoRet
    /\ eng = NoEngine
    /\ pidFile = NoPid
    /\ x = FreshX
    /\ st = StIdle
    /\ w = "off"
    /\ sp = SpIdle
    /\ xret = NoXRet
    /\ ft = FetchIdle
    /\ dc \in [content : Bodies, done : {FALSE}, out : {NoDecode}]
    /\ due = DueIdle
    /\ tb = BatchIdle
    /\ sup = SupIdle
    /\ cn = ConnectIdle
    /\ pa = PathsIdle
    /\ hp = PortsIdle
    /\ gq = QueryIdle
    /\ xw = WatchIdle
    /\ pr = ParseIdle
    /\ rs = SetupIdle

NextDecode ==
    \/ DecodeCall

InitDue ==
    /\ db \in DueStores
    /\ upd = Idle
    /\ last = NoOp
    /\ keepHome = TRUE
    /\ sfile = NoFile
    /\ stop = FALSE
    /\ routes = [bypass |-> {}, overlay |-> {}, default |-> OrigGateway]
    /\ dns = restoreDNS
    /\ ifaces = {SystemTUN}
    /\ dmn = DaemonOff
    /\ en = "idle"
    /\ dis = DisIdle
    /\ tret = NoRet
    /\ eng = NoEngine
    /\ pidFile = NoPid
    /\ x = FreshX
    /\ st = StIdle
    /\ w = "off"
    /\ sp = SpIdle
    /\ xret = NoXRet
    /\ ft = FetchIdle
    /\ dc = [content |-> << >>, done |-> FALSE, out |-> NoDecode]
    /\ due = DueIdle
    /\ tb = BatchIdle
    /\ sup = SupIdle
    /\ cn = ConnectIdle
    /\ pa = PathsIdle
    /\ hp = PortsIdle
    /\ gq = QueryIdle
    /\ xw = WatchIdle
    /\ pr = ParseIdle
    /\ rs = SetupIdle

NextDue ==
    \/ \E now \in 0..(MaxClock + 1) : DueStart(now)
    \/ \E now \in 0..(MaxClock + 1) : ForceUpdateAll(now)
    \/ \E fault \in Faults, f \in Feeds : DueUpdate(fault, f)
    \/ \E id \in 1..(MaxDueGroups + 1) : DeleteGroup(id)

InitBatch ==
    /\ db = InitDB
    /\ upd = Idle
    /\ last = NoOp
    /\ keepHome = TRUE
    /\ sfile = NoFile
    /\ stop = FALSE
    /\ routes = [bypass |-> {}, overlay |-> {}, default |-> OrigGateway]
    /\ dns = restoreDNS
    /\ ifaces = {SystemTUN}
    /\ dmn = DaemonOff
    /\ en = "idle"
    /\ dis = DisIdle
    /\ tret = NoRet
    /\ eng = NoEngine
    /\ pidFile = NoPid
    /\ x = FreshX
    /\ st = StIdle
    /\ w = "off"
    /\ sp = SpIdle
    /\ xret = NoXRet
    /\ ft = FetchIdle
    /\ dc = [content |-> << >>, done |-> FALSE, out |-> NoDecode]
    /\ due = DueIdle
    /\ tb = BatchIdle
    /\ sup = SupIdle
    /\ cn = ConnectIdle
    /\ pa = PathsIdle
    /\ hp = PortsIdle
    /\ gq = QueryIdle
    /\ xw = WatchIdle
    /\ pr = ParseIdle
    /\ rs = SetupIdle

NextBatch ==
    \/ \E n \in 0..MaxBatch, workers \in ConfiguredWorkers, progress \in BOOLEAN :
         BatchCall(n, workers, progress)
    \/ BatchCancel
    \/ \E i \in 1..MaxBatch : Acquire(i)
    \/ \E i \in 1..MaxBatch : AcquireFails(i)
    \/ \E i \in 1..MaxBatch, r \in ProbeResults : TestSingle(i, r)
    \/ \E i \in 1..MaxBatch : Count(i)
    \/ \E i \in 1..MaxBatch : ProgressBegin(i)
    \/ \E i \in 1..MaxBatch : ProgressEnd(i)
    \/ BatchReturn

InitSup ==
    /\ db = InitDB
    /\ upd = Idle
    /\ last = NoOp
    /\ keepHome = TRUE
    /\ sfile = NoFile
    /\ stop = FALSE
    /\ routes = [bypass |-> {}, overlay |-> {}, default |-> OrigGateway]
    /\ dns = restoreDNS
    /\ ifaces = {SystemTUN}
    /\ dmn = DaemonOff
    /\ en = "idle"
    /\ dis = DisIdle
    /\ tret = NoRet
    /\ eng = NoEngine
    /\ pidFile = NoPid
    /\ x = FreshX
    /\ st = StIdle
    /\ w = "off"
    /\ sp = SpIdle
    /\ xret = NoXRet
    /\ ft = FetchIdle
    /\ dc = [content |-> << >>, done |-> FALSE, out |-> NoDecode]
    /\ due = DueIdle
    /\ tb = BatchIdle
    /\ sup = SupIdle
    /\ cn = ConnectIdle
    /\ pa = PathsIdle
    /\ hp = PortsIdle
    /\ gq = QueryIdle
    /\ xw = WatchIdle
    /\ pr = ParseIdle
    /\ rs = SetupIdle

NextSup ==
    \/ \E c \in Callers, op \in Ops : SupCall(c, op)
    \/ \E c \in Callers : MLock(c)
    \/ \E c \in Callers : XLock(c)
    \/ \E c \in Callers : XStopBody(c)
    \/ \E c \in Callers : RestartResume(c)
    \/ \E c \in Callers : XStartBody(c)
    \/ \E c \in Callers : MUnlock(c)
    \/ SupEngineExits

InitConnect ==
    /\ db = InitDB
    /\ upd = Idle
    /\ last = NoOp
    /\ keepHome = TRUE
    /\ sfile = NoFile
    /\ stop = FALSE
    /\ routes = [bypass |-> {}, overlay |-> {}, default |-> OrigGateway]
    /\ dns = restoreDNS
    /\ ifaces = {SystemTUN}
    /\ dmn = DaemonOff
    /\ en = "idle"
    /\ dis = DisIdle
    /\ tret = NoRet
    /\ eng = NoEngine
    /\ pidFile = NoPid
    /\ x = FreshX
    /\ st = StIdle
    /\ w = "off"
    /\ sp = SpIdle
    /\ xret = NoXRet
    /\ ft = FetchIdle
    /\ dc = [content |-> << >>, done |-> FALSE, out |-> NoDecode]
    /\ due = DueIdle
    /\ tb = BatchIdle
    /\ sup = SupIdle
    /\ cn = ConnectIdle
    /\ pa = PathsIdle
    /\ hp = PortsIdle
    /\ gq = QueryIdle
    /\ xw = WatchIdle
    /\ pr = ParseIdle
    /\ rs = SetupIdle

NextConnect ==
    \/ \E v \in StoredModes : SaveSetting(v)
    \/ \E cid \in 1..MaxConfigId, flag \in ModeFlags, priv \in BOOLEAN :
         ConnectStart(cid, flag, priv)
    \/ \E ok \in BOOLEAN : ConnectEngine(ok)
    \/ \E ok \in BOOLEAN : ConnectTun(ok)
    \/ \E ok \in BOOLEAN : ConnectSave(ok)
    \/ Disconnect

SpecCatalog == InitCatalog /\ [][NextCatalog]_vars

SpecTun == InitTun /\ [][NextTun]_vars

SpecXray == InitXray /\ [][NextXray]_vars

SpecFetch == InitFetch /\ [][NextFetch]_vars

\* Fetch is a function call that runs to its return: its steps, and the
\* events it waits for (the response, the timer), keep happening.
SpecFetchLive == InitFetch /\ [][NextFetch]_vars /\ WF_vars(NextFetch)

SpecDecode == InitDecode /\ [][NextDecode]_vars

SpecDue == InitDue /\ [][NextDue]_vars

SpecBatch == InitBatch /\ [][NextBatch]_vars

SpecSup == InitSup /\ [][NextSup]_vars

SpecConnect == InitConnect /\ [][NextConnect]_vars

InitPaths ==
    /\ db = InitDB
    /\ upd = Idle
    /\ last = NoOp
    /\ keepHome = TRUE
    /\ sfile = NoFile
    /\ stop = FALSE
    /\ routes = [bypass |-> {}, overlay |-> {}, default |-> OrigGateway]
    /\ dns = restoreDNS
    /\ ifaces = {SystemTUN}
    /\ dmn = DaemonOff
    /\ en = "idle"
    /\ dis = DisIdle
    /\ tret = NoRet
    /\ eng = NoEngine
    /\ pidFile = NoPid
    /\ x = FreshX
    /\ st = StIdle
    /\ w = "off"
    /\ sp = SpIdle
    /\ xret = NoXRet
    /\ ft = FetchIdle
    /\ dc = [content |-> << >>, done |-> FALSE, out |-> NoDecode]
    /\ due = DueIdle
    /\ tb = BatchIdle
    /\ sup = SupIdle
    /\ cn = ConnectIdle
    /\ pa = PathsIdle
    /\ hp = PortsIdle
    /\ gq = QueryIdle
    /\ xw = WatchIdle
    /\ pr = ParseIdle
    /\ rs = SetupIdle

NextPaths ==
    \/ \E env \in Envs : Invoke(env)
    \/ \E a \in Artefacts : WriteArtefact(a)
    \/ \E a \in Artefacts : ResolveArtefact(a)

SpecPaths == InitPaths /\ [][NextPaths]_vars

InitParse ==
    /\ db = InitDB
    /\ upd = Idle
    /\ last = NoOp
    /\ keepHome = TRUE
    /\ sfile = NoFile
    /\ stop = FALSE
    /\ routes = [bypass |-> {}, overlay |-> {}, default |-> OrigGateway]
    /\ dns = restoreDNS
    /\ ifaces = {SystemTUN}
    /\ dmn = DaemonOff
    /\ en = "idle"
    /\ dis = DisIdle
    /\ tret = NoRet
    /\ eng = NoEngine
    /\ pidFile = NoPid
    /\ x = FreshX
    /\ st = StIdle
    /\ w = "off"
    /\ sp = SpIdle
    /\ xret = NoXRet
    /\ ft = FetchIdle
    /\ dc = [content |-> << >>, done |-> FALSE, out |-> NoDecode]
    /\ due = DueIdle
    /\ tb = BatchIdle
    /\ sup = SupIdle
    /\ cn = ConnectIdle
    /\ pa = PathsIdle
    /\ hp = PortsIdle
    /\ gq = QueryIdle
    /\ xw = WatchIdle
    /\ pr \in {ParseNew(u) : u \in URIInputs}
    /\ rs = SetupIdle

NextParse ==
    \/ ParseURI
    \/ EncodeEndpoint
    \/ ParseEncoded

SpecParse == InitParse /\ [][NextParse]_vars

InitSetup ==
    /\ db = InitDB
    /\ upd = Idle
    /\ last = NoOp
    /\ keepHome = TRUE
    /\ sfile = NoFile
    /\ stop = FALSE
    /\ routes = [bypass |-> {}, overlay |-> {}, default |-> OrigGateway]
    /\ dns = restoreDNS
    /\ ifaces = {SystemTUN}
    /\ dmn = DaemonOff
    /\ en = "idle"
    /\ dis = DisIdle
    /\ tret = NoRet
    /\ eng = NoEngine
    /\ pidFile = NoPid
    /\ x = FreshX
    /\ st = StIdle
    /\ w = "off"
    /\ sp = SpIdle
    /\ xret = NoXRet
    /\ ft = FetchIdle
    /\ dc = [content |-> << >>, done |-> FALSE, out |-> NoDecode]
    /\ due = DueIdle
    /\ tb = BatchIdle
    /\ sup = SupIdle
    /\ cn = ConnectIdle
    /\ pa = PathsIdle
    /\ hp = PortsIdle
    /\ gq = QueryIdle
    /\ xw = WatchIdle
    /\ pr = ParseIdle
    /\ rs \in {SetupNew(b, a, v) : b \in Builds, a \in RemoteAddrLists, v \in ServiceLists}

NextSetup ==
    \/ \E ok \in BOOLEAN : SetupAddress(ok)
    \/ \E ok \in BOOLEAN : SetupBypass(ok)
    \/ \E ok \in BOOLEAN : SetupRouteFirst(ok)
    \/ \E ok \in BOOLEAN : SetupRouteSecond(ok)
    \/ \E ok \in BOOLEAN : SetupDNS(ok)
    \/ \E ok \in BOOLEAN : SetupSaveState(ok)
    \/ SetupWaitEnds
    \/ UndoDNS
    \/ UndoRouteDelete
    \/ \E ok \in BOOLEAN : UndoRouteAdd(ok)
    \/ UndoBypass
    \/ UndoEngine

SpecSetup == InitSetup /\ [][NextSetup]_vars

\* The tunnel with a daemon that keeps running: its ticker fires every
\* 500 ms, so a stop file that stays is seen, and the commands of its
\* cleanup follow one another. A kill of the daemon is not fair.
SpecTunLive ==
    /\ InitTun
    /\ [][NextTun]_vars
    /\ WF_vars(DaemonSeesStop)
    /\ WF_vars(DaemonCleanup)

InitPorts ==
    /\ db = InitDB
    /\ upd = Idle
    /\ last = NoOp
    /\ keepHome = TRUE
    /\ sfile = NoFile
    /\ stop = FALSE
    /\ routes = [bypass |-> {}, overlay |-> {}, default |-> OrigGateway]
    /\ dns = restoreDNS
    /\ ifaces = {SystemTUN}
    /\ dmn = DaemonOff
    /\ en = "idle"
    /\ dis = DisIdle
    /\ tret = NoRet
    /\ eng = NoEngine
    /\ pidFile = NoPid
    /\ x = FreshX
    /\ st = StIdle
    /\ w = "off"
    /\ sp = SpIdle
    /\ xret = NoXRet
    /\ ft = FetchIdle
    /\ dc = [content |-> << >>, done |-> FALSE, out |-> NoDecode]
    /\ due = DueIdle
    /\ tb = BatchIdle
    /\ sup = SupIdle
    /\ cn = ConnectIdle
    /\ pa = PathsIdle
    /\ hp = PortsIdle
    /\ gq = QueryIdle
    /\ xw = WatchIdle
    /\ pr = ParseIdle
    /\ rs = SetupIdle

NextPorts ==
    \/ MainStart
    \/ MainStop
    \/ \E i \in Probes, p \in EphemeralPorts : ProbeSocksPort(i, p)
    \/ \E i \in Probes, p \in EphemeralPorts : ProbeHTTPPort(i, p)
    \/ \E i \in Probes : ProbeStart(i)
    \/ \E i \in Probes : ProbeEnd(i)

SpecPorts == InitPorts /\ [][NextPorts]_vars

InitGetDue ==
    /\ db = InitDB
    /\ upd = Idle
    /\ last = NoOp
    /\ keepHome = TRUE
    /\ sfile = NoFile
    /\ stop = FALSE
    /\ routes = [bypass |-> {}, overlay |-> {}, default |-> OrigGateway]
    /\ dns = restoreDNS
    /\ ifaces = {SystemTUN}
    /\ dmn = DaemonOff
    /\ en = "idle"
    /\ dis = DisIdle
    /\ tret = NoRet
    /\ eng = NoEngine
    /\ pidFile = NoPid
    /\ x = FreshX
    /\ st = StIdle
    /\ w = "off"
    /\ sp = SpIdle
    /\ xret = NoXRet
    /\ ft = FetchIdle
    /\ dc = [content |-> << >>, done |-> FALSE, out |-> NoDecode]
    /\ due = DueIdle
    /\ tb = BatchIdle
    /\ sup = SupIdle
    /\ cn = ConnectIdle
    /\ pa = PathsIdle
    /\ hp = PortsIdle
    /\ xw = WatchIdle
    /\ pr = ParseIdle
    /\ rs = SetupIdle
    /\ gq \in {[QueryIdle EXCEPT !.g = g, !.zone = z] :
                 g \in [QueryGroups -> CreatedRows], z \in Zones}

NextGetDue ==
    \/ ClockTick
    \/ \E i \in QueryGroups : StampNextUpdate(i)
    \/ GetDueGroups

SpecGetDue == InitGetDue /\ [][NextGetDue]_vars

InitWatch ==
    /\ db = InitDB
    /\ upd = Idle
    /\ last = NoOp
    /\ keepHome = TRUE
    /\ sfile = NoFile
    /\ stop = FALSE
    /\ routes = [bypass |-> {}, overlay |-> {}, default |-> OrigGateway]
    /\ dns = restoreDNS
    /\ ifaces = {SystemTUN}
    /\ dmn = DaemonOff
    /\ en = "idle"
    /\ dis = DisIdle
    /\ tret = NoRet
    /\ eng = NoEngine
    /\ pidFile = NoPid
    /\ x = FreshX
    /\ st = StIdle
    /\ w = "off"
    /\ sp = SpIdle
    /\ xret = NoXRet
    /\ ft = FetchIdle
    /\ dc = [content |-> << >>, done |-> FALSE, out |-> NoDecode]
    /\ due = DueIdle
    /\ tb = BatchIdle
    /\ sup = SupIdle
    /\ cn = ConnectIdle
    /\ pa = PathsIdle
    /\ hp = PortsIdle
    /\ gq = QueryIdle
    /\ xw = WatchIdle
    /\ pr = ParseIdle
    /\ rs = SetupIdle

NextWatch ==
    \/ WatchStart
    \/ WatchStop
    \/ WatchRestart
    \/ WatchStartCheck
    \/ \E p \in Pids : WatchEngineExits(p)
    \/ \E p \in Pids : WatchReaps(p)
    \/ \E p \in Pids : WatchRemoves(p)
    \/ WatchCliExit
    \/ \E p \in Pids : WatchPidReused(p)

SpecWatch == InitWatch /\ [][NextWatch]_vars

---------------------------------------------------------------------------
(* Properties of the catalog and the synchronizer *)

\* A step of the running UpdateGroup, and the step on which it commits.
UpdStep == upd' # upd
UpdCommitted == upd.pc = "commit" /\ upd'.pc = "idle" /\ ~last'.err

UserRows(d) == Restrict(d.configs, {c \in ConfigIds(d) : ~d.configs[c].fromSub})
RowsOutside(d, gid) == Restrict(d.configs, {c \in ConfigIds(d) : d.configs[c].group # gid})
FeedURIs(uris) == {uris[k] : k \in 1..Len(uris)}

\* C1: no step of UpdateGroup(g) removes or changes a user-added endpoint or
\* an endpoint of another group, and on the step that commits, every
\* from-subscription endpoint of g is a new row made from a URI of the feed
\* this call decoded and none of the from-subscription rows g had before
\* remains.
C1_UpdateKeepsUserAdded ==
    [][UpdStep =>
         /\ UserRows(db') = UserRows(db)
         /\ upd.pc # "idle" => RowsOutside(db', upd.gid) = RowsOutside(db, upd.gid)
         /\ UpdCommitted =>
              /\ SubConfigsOf(db', upd.gid) \cap SubConfigsOf(db, upd.gid) = {}
              /\ \A c \in SubConfigsOf(db', upd.gid) :
                   /\ c \notin ConfigIds(db)
                   /\ db'.configs[c].uri \in FeedURIs(upd.uris)]_vars

\* C1 witness: an UpdateGroup returned success for a group that had
\* from-subscription rows before, has a user-added row, and got new rows.
C1_Witness ==
    /\ last.op = "UpdateGroup" /\ ~last.err
    /\ last.old # {}
    /\ last.added > 0
    /\ UserConfigsOf(db, last.id) # {}
    /\ SubConfigsOf(db, last.id) # {}
    /\ SubConfigsOf(db, last.id) \cap last.old = {}

\* C2: UpdateGroup is atomic: the rows other connections read change on no
\* step of UpdateGroup but the successful Commit, so a reader sees the old
\* slice or the new one, and an UpdateGroup that returns an error after its
\* transaction did work leaves the endpoints and the group's last_updated /
\* next_update as they were.
C2_UpdateAtomic ==
    [][(UpdStep /\ ~UpdCommitted) => db' = db]_vars

\* C2 witness: an UpdateGroup that had deleted old rows and inserted new ones
\* in its transaction returned an error, and the group still has the old rows
\* and the stamp of the earlier update.
C2_Witness ==
    /\ last.op = "UpdateGroup" /\ last.err
    /\ last.pc \in {"update", "commit"}
    /\ last.old # {} /\ last.added > 0
    /\ last.id \in GroupIds(db)
    /\ SubConfigsOf(db, last.id) = last.old
    /\ db.groups[last.id].lastUpdated = last.stamp

GlobalGroups(d) == {i \in GroupIds(d) : d.groups[i].isGlobal}

\* C10: in every reachable state exactly one group is the global group, and
\* a DeleteGroup of it returns an error and leaves every row in place.
C10_OneGlobalGroup ==
    /\ [](Cardinality(GlobalGroups(db)) = 1)
    /\ [][(last' # last /\ last'.op = "DeleteGroup" /\ last'.id \in GlobalGroups(db))
            => (last'.err /\ db' = db)]_vars

\* C10 witness: DeleteGroup of the global group was refused while the global
\* group held endpoints and another group existed.
C10_Witness ==
    /\ last.op = "DeleteGroup" /\ last.err
    /\ last.id \in GlobalGroups(db)
    /\ ConfigsOf(db, last.id) # {}
    /\ Cardinality(GroupIds(db)) > 1

---------------------------------------------------------------------------
(* Properties of the tunnel *)

C4_EnableSuccessHasDevice ==
    [][(en = "poll" /\ en' = "idle" /\ tret'.ok)
         => (sfile'.kind = "state" /\ sfile'.device \in ifaces')]_vars

\* C5 as stated: whenever Disable returns success the state file does not
\* exist, the default route goes via the original gateway and the overlay
\* routes and the DNS override are removed.
C5_DisableSuccessRestored ==
    [][(dis.pc # "idle" /\ dis'.pc = "idle" /\ tret'.ok)
         => /\ sfile'.kind = "none"
            /\ routes'.default = OrigGateway
            /\ routes'.overlay = {}
            /\ dns' # tunDNS]_vars

\* C8 as stated: from a state in which the daemon was killed after writing
\* its state file and all it installed is still there, CleanupIfNeeded
\* leaves the overlay and recorded bypass routes removed, DNS restored, the
\* default route via the recorded gateway and the state file deleted.
C8_CleanupRecovers ==
    [][(Crashed /\ tret' # tret /\ tret'.op = "CleanupIfNeeded")
         => (TornDown' /\ sfile'.kind = "none")]_vars

DisableStep == dis' # dis

---------------------------------------------------------------------------
(* Properties of the engine supervisor *)

StopReturned == xret' # xret /\ xret'.op = "Stop"
StartReturned == st.pc = "sleep" /\ st'.pc = "idle"

\* C6 as stated: whenever Stop returns success the PID file does not exist
\* and the process whose pid was recorded is no longer alive, with the
\* in-memory child handle and with the pid read from the PID file alike.
C6_StopSuccessProcessGone ==
    [][(StopReturned /\ xret'.ok)
         => (pidFile' = NoPid /\ ~(eng'.state = "alive" /\ eng'.pid = xret'.pid))]_vars

\* C7 as stated: when the engine has exited by the check after the sleep,
\* Start returns an error with the running flag false and no PID file left;
\* when it is alive at the check, Start returns success and the PID file
\* names it.
C7_StartSanityCheck ==
    [][StartReturned =>
         IF eng.state = "dead"
         THEN ~xret'.ok /\ x'.running = 0 /\ pidFile' = NoPid
         ELSE xret'.ok /\ pidFile' = eng.pid]_vars

---------------------------------------------------------------------------
(* Properties of the subscription fetcher *)

FetchReturned == ft.pc = "done"

ClientErrorSeen == \E k \in 1..Len(ft.outs) : ft.outs[k] = "4xx"

\* C11 as stated: whenever a call of Fetch in which an attempt received a 4xx
\* response has returned, exactly one request was sent for that call and the
\* call returned an error.
C11_ClientErrorOneRequest ==
    (FetchReturned /\ ClientErrorSeen) => (ft.requests = 1 /\ ft.ret = "error")

\* C11: the attempt that receives a 4xx response is the last one of its call:
\* Fetch returns an error at once, no request is sent after it, and exactly
\* one request was sent when the 4xx came on the first attempt; attempts that
\* failed in a retryable way before it have sent their own requests.
C11_ClientErrorNotRetried ==
    \A k \in 1..Len(ft.outs) :
        ft.outs[k] = "4xx" =>
            /\ k = Len(ft.outs)
            /\ FetchReturned
            /\ ft.ret = "error"
            /\ ft.requests = k

\* C11 witness: a 4xx on a later attempt, with retries still left, ended the
\* call.
C11_Witness ==
    /\ FetchReturned /\ ft.ret = "error"
    /\ Len(ft.outs) >= 2
    /\ ft.outs[Len(ft.outs)] = "4xx"
    /\ Len(ft.outs) <= ft.maxRetries
    /\ ft.requests = Len(ft.outs)

PersistentFailure == \A k \in 1..Len(ft.outs) : ft.outs[k] \in Retryable

\* C12: every call of Fetch returns; a call that returns the body does so on
\* its first successful attempt; a call whose every attempt fails in a
\* retryable way, the context staying live, sends maxRetries + 1 requests and
\* returns an error; and the wait before the k-th retry is RetryDelay * k.
C12_FetchTerminates ==
    /\ [](FetchReturned /\ ft.ret = "ok" =>
            /\ ft.outs[Len(ft.outs)] = "ok"
            /\ \A k \in 1..(Len(ft.outs) - 1) : ft.outs[k] # "ok"
            /\ ft.requests = Len(ft.outs))
    /\ [](FetchReturned /\ PersistentFailure /\ ~ft.cancelled =>
            /\ ft.ret = "error"
            /\ ft.requests = ft.maxRetries + 1
            /\ Len(ft.waits) = ft.maxRetries)
    /\ [](\A k \in 1..Len(ft.waits) : ft.waits[k] = RetryDelay * k)
    /\ <>FetchReturned

\* C12 witness: the default fetcher gave up after the initial attempt and
\* three retries, having waited 2, 4 and 6 seconds.
C12_Witness ==
    /\ FetchReturned /\ ft.ret = "error" /\ ~ft.cancelled
    /\ ft.maxRetries = DefaultMaxRetries
    /\ PersistentFailure
    /\ ft.requests = 4
    /\ ft.waits = <<2, 4, 6>>

---------------------------------------------------------------------------
(* Properties of the subscription decoder *)

\* The text Decode works on: the base64 decoding of the body when the body
\* is base64 text, the body itself otherwise.
BodyText(c) ==
    IF \A k \in 1..Len(c) : c[k] \in Base64 \cup {"nl"}
    THEN LET kept == SelectSeq(c, LAMBDA t : t # "nl")
         IN  [k \in 1..Len(kept) |-> Unbase64(kept[k])]
    ELSE c

\* The positions around which the text breaks into lines.
Breaks(s) == {0, Len(s) + 1} \cup {k \in 1..Len(s) : s[k] = "nl"}

LineFrom(s, a) ==
    LET b == CHOOSE e \in Breaks(s) : e > a /\ \A o \in Breaks(s) : o > a => e <= o
    IN  SubSeq(s, a + 1, b - 1)

Trimmed(l) ==
    LET inked == {k \in 1..Len(l) : l[k] # "sp"}
    IN  IF inked = {} THEN << >>
        ELSE SubSeq(l, CHOOSE k \in inked : \A j \in inked : k <= j,
                       CHOOSE k \in inked : \A j \in inked : j <= k)

Recognised(l) == l # << >> /\ l[1] \in {"S", "U"}

\* The trimmed lines of the text that start with a recognised scheme, in any
\* letter case, in the order of the text.
RecognisedLines(s) ==
    LET starts == Ascending(Breaks(s) \ {Len(s) + 1})
        lines == [k \in 1..Len(starts) |-> Trimmed(LineFrom(s, starts[k]))]
    IN  SelectSeq(lines, Recognised)

\* C14: Decode returns exactly the trimmed lines of the decoded (or plain)
\* body that start with a recognised scheme, compared in lower case, in
\* input order, and returns the empty-subscription error exactly when there
\* is no such line.
C14_DecodeRetainsRecognised ==
    dc.done =>
        LET expected == RecognisedLines(BodyText(dc.content))
        IN  /\ dc.out.err <=> expected = << >>
            /\ ~dc.out.err => dc.out.uris = expected

\* C14 witness: a body with a padded upper-case URI line and a line of
\* another scheme decoded to the one trimmed URI.
C14_Witness ==
    /\ dc.done /\ ~dc.out.err
    /\ \E k \in 1..Len(dc.content) : dc.content[k] = "sp"
    /\ \E k \in 1..Len(dc.content) : dc.content[k] = "H"
    /\ dc.out.uris = <<(<<"U">>)>>

---------------------------------------------------------------------------
(* Properties of the batch update *)

\* C15: UpdateAllDue calls UpdateGroup for every group get-due returned, in
\* that order, whatever the earlier calls returned, and returns one result
\* per group in the same order; the result of a failed call carries the
\* error with added = 0.
C15_OneResultPerDueGroup ==
    /\ Len(due.results) = Len(due.called)
    /\ \A k \in 1..Len(due.called) :
         /\ due.called[k] = due.groups[k]
         /\ due.results[k].gid = due.groups[k]
         /\ due.results[k].err => due.results[k].added = 0
    /\ due.pc = "done" => due.called = due.groups

\* C15 witness: the first due group failed, the second was updated and got
\* endpoints, and both have their result.
C15_Witness ==
    /\ due.pc = "done"
    /\ Len(due.results) = 2
    /\ due.results[1].err
    /\ ~due.results[2].err /\ due.results[2].added > 0
    /\ SubConfigsOf(db, due.groups[2]) # {}

---------------------------------------------------------------------------
(* Properties of the latency tester *)

BatchReturned == tb.pc = "done"

\* C16 as stated: the results TestBatch returns have the successes first in
\* ascending latency, then the failures, and results that compare equal are
\* in input order.
C16_SortedStable ==
    BatchReturned =>
        \A a, b \in 1..Len(tb.out) :
            a < b =>
                /\ ~less(tb.results[tb.out[b]], tb.results[tb.out[a]])
                /\ ~less(tb.results[tb.out[a]], tb.results[tb.out[b]])
                     => tb.out[a] < tb.out[b]

\* C17: when TestBatch returns, len(results) = tested = succeeded + failed;
\* with the context not cancelled tested is the number of endpoints; an
\* empty batch returns all zeros and no result.
C17_BatchCounts ==
    BatchReturned =>
        /\ Len(tb.out) = tb.tested
        /\ tb.tested = tb.succeeded + tb.failed
        /\ ~tb.cancelled => tb.tested = tb.n
        /\ tb.n = 0 => (tb.tested = 0 /\ tb.succeeded = 0 /\ tb.failed = 0 /\ tb.out = << >>)

\* C17 witness: a batch of several endpoints, some failing and some not,
\* returned with the context live.
C17_Witness ==
    /\ BatchReturned /\ ~tb.cancelled
    /\ tb.n >= 2
    /\ tb.failed >= 1 /\ tb.succeeded >= 1
    /\ tb.tested = tb.n

\* C18 as stated: at no time are two invocations of the progress callback
\* running, the values of current reach the caller as 1, 2, ..., and when
\* TestBatch returns the callback has run once per completed probe.
C18_ProgressSerialized ==
    /\ Cardinality({i \in 1..tb.n : tb.g[i] = "inprogress"}) <= 1
    /\ \A k \in 1..Len(tb.delivered) : tb.delivered[k] = k
    /\ (BatchReturned /\ tb.progress) => Len(tb.delivered) = tb.completed

---------------------------------------------------------------------------
(* Properties of the supervisor under concurrent callers *)

\* The caller holds the body of a Manager method: m.mu is taken and not yet
\* released.
InManagerBody(c) ==
    sup.op[c] \in ManagerOps /\ sup.pc[c] \notin {"idle", "mlock"}

\* The caller is inside the body of Xray.Start or Xray.Stop.
InXrayBody(c) == sup.pc[c] \in {"xstop.body", "xstart.body"}

\* The caller's Restart has stopped the engine and not yet entered Start.
BetweenStopAndStart(c) ==
    sup.op[c] \in Restarts /\ sup.pc[c] = "between"

---------------------------------------------------------------------------
(* Properties of connect *)

\* C20 as stated: when connect --mode tun has returned success, it ran in
\* tunnel mode whatever vpn_mode was stored: the tunnel daemon was spawned
\* and the active-connection row carries the tunnel tag.
C20_ModeTunSelectsTunnel ==
    (cn.flag = "tun" /\ cn.ret = "connected" /\ cn.active.mode # "none") =>
        /\ cn.mode = VPNModeTunnel
        /\ cn.daemon
        /\ cn.active.mode = VPNModeTunnel

---------------------------------------------------------------------------
(* Properties of the paths *)

\* The files an elevated command invoked by u wrote.
WrittenElevatedBy(u) == {f \in pa.files : f.by = u /\ f.elevated}

\* C21: when an unprivileged invocation by a user resolves an artefact, the
\* path is under that user's home and it is the path at which every
\* elevated invocation by the same user wrote that artefact, so the file is
\* found.
C21_SamePathAcrossPrivilege ==
    (pa.looked.artefact # "none" /\ ~Elevated(pa.env))
      => /\ pa.looked.path[1] = HomeOf(Invoker(pa.env))
         /\ \A f \in WrittenElevatedBy(Invoker(pa.env)) :
              f.artefact = pa.looked.artefact
                => (f.path = pa.looked.path /\ pa.looked.found)

---------------------------------------------------------------------------
(* Properties of the parsers *)

\* The number a port stands for, where it stands for one.
PortNumber(p) == IF p.t = "num" THEN p.n ELSE Atoi(p.s).n
HasPortNumber(p) == p.t = "num" \/ (p.t = "text" /\ Atoi(p.s).ok)

\* C22: a link whose port is 0 or 65536 is rejected by Registry.Parse, and
\* every endpoint Parse returns has a port in 1..65535.
C22_PortOutOfRangeRejected ==
    pr.pc \notin {"idle", "new"}
      => /\ (HasPortNumber(pr.uri.port) /\ PortNumber(pr.uri.port) \in {0, 65536}) => ~pr.e.ok
         /\ pr.e.ok => pr.e.port \in 1..65535

\* The fields of an endpoint a protocol is responsible for.
SameEndpoint(a, b) ==
    /\ a.ok = b.ok
    /\ a.name = b.name
    /\ a.protocol = b.protocol
    /\ a.address = b.address
    /\ a.port = b.port
    /\ a.network = b.network
    /\ a.auth = b.auth
    /\ a.transport = b.transport
    /\ a.tlsEnabled = b.tlsEnabled
    /\ a.tls = b.tls

\* C23: for an endpoint e that Parse produced, the Parse of the Encode of e
\* succeeds and gives an endpoint equal to e on name, protocol, address,
\* port, network, auth, transport and TLS.
C23_EncodeParseRoundTrip ==
    pr.pc = "done" => (pr.e2.ok /\ SameEndpoint(pr.e, pr.e2))

---------------------------------------------------------------------------
(* Properties of the connect sequence *)

\* The active-connection row is written on this step.
RowWritten == cn'.active # cn.active /\ cn'.active.mode # "none"

\* C24: the active-connection row is written only by the step that follows
\* a successful Start and, in tunnel mode, a successful Enable; a connect
\* whose Start fails writes no row, and a connect whose Enable fails stops
\* the engine it started and writes no row.
C24_RowAfterStartAndEnable ==
    [][/\ RowWritten =>
            /\ cn.pc = "save"
            /\ cn.engine
            /\ cn.mode = VPNModeTunnel => cn.daemon
       /\ (cn.pc = "engine" /\ cn'.ret = "error") => cn'.active = cn.active
       /\ (cn.pc = "tun" /\ cn'.ret = "error") => (cn'.active = cn.active /\ ~cn'.engine)]_vars

\* A connect in tunnel mode has written the row, with the engine and the
\* daemon running.
C24_Witness ==
    /\ cn.ret = "connected"
    /\ cn.mode = VPNModeTunnel
    /\ cn.active = [cid |-> cn.cid, mode |-> VPNModeTunnel]
    /\ cn.engine
    /\ cn.daemon

---------------------------------------------------------------------------
(* Properties of the tunnel's parent side and daemon *)

\* C25: when Enable, having spawned the daemon, returns an error, then
\* either the child had exited before its state file appeared and the error
\* is the startup error that names the log, returned without waiting for
\* the deadline, or the 15 s passed with the child alive, the child is
\* killed and the error is the timeout.
C25_EnableFailureOutcomes ==
    [][(en = "poll" /\ en' = "idle" /\ ~tret'.ok)
         => IF ~DaemonAlive
            THEN tret'.err = "premature"
            ELSE tret'.err = "timeout" /\ ~DaemonAlive']_vars


\* C26: a CleanupIfNeeded that finds a state file writes the stop file, and
\* restores routes and DNS or removes the state file itself only when the
\* daemon is gone.
C26_CleanupGracefulFirst ==
    [][\A priv \in BOOLEAN :
         (AppStart(priv) /\ StateView(priv).kind # "none")
           => /\ stop'
              /\ (routes' # routes \/ dns' # dns \/ sfile' # sfile) => ~DaemonAlive]_vars


\* C27: when RunDaemon returns after a failed setup step, no bypass host
\* route, no overlay route and no DNS override that it made is left, and the
\* tun engine is stopped.
C27_SetupFailureRollsBack ==
    (rs.pc = "returned" /\ rs.ret = "error")
      => /\ \A a \in Range(rs.addrs) : ~HasRoute(rs.table, a)
         /\ ~HasRoute(rs.table, "0/1") /\ ~HasRoute(rs.table, "128/1")
         /\ rs.dnsSet = {}
         /\ ~rs.engine

---------------------------------------------------------------------------
(* C28 *)

Cleaning == {"c_dns", "c_route", "c_bypass", "c_engine", "c_state"}

AfterCleaning(pc) ==
    CASE pc = "c_dns" -> "c_route"
      [] pc = "c_route" -> "c_bypass"
      [] pc = "c_bypass" -> "c_engine"
      [] pc = "c_engine" -> "c_state"
      [] OTHER -> "off"

\* One step of the daemon from its wait loop on: the cleanup is entered
\* from the wait loop only and at its first command; its commands come in
\* the order DNS, overlay routes, bypass routes, engine, state file; the
\* state file is not touched before the last of them, and when it is
\* removed everything else has been restored.
CleanupStep ==
    /\ (dmn'.pc \in Cleaning /\ dmn'.pc # dmn.pc)
         => \/ dmn.pc = "ready" /\ dmn'.pc = "c_dns"
            \/ dmn.pc \in Cleaning /\ dmn'.pc = AfterCleaning(dmn.pc)
    /\ (dmn.pc = "ready" /\ dmn'.pc = "c_dns")
         => /\ dns' = dns /\ routes' = routes /\ sfile' = sfile /\ ifaces' = ifaces
            /\ stop' # stop => ~stop'
    /\ (dmn.pc \in Cleaning /\ dmn'.pc # dmn.pc)
         => dmn'.pc \in {AfterCleaning(dmn.pc), "off"}
    /\ (dmn.pc = "c_dns" /\ dmn'.pc = "c_route") => dns' = restoreDNS
    /\ (dmn.pc = "c_route" /\ dmn'.pc = "c_bypass") => routes'.overlay = {}
    /\ (dmn.pc = "c_bypass" /\ dmn'.pc = "c_engine")
         => routes'.bypass \cap allBypasses = {}
    /\ (dmn.pc = "c_engine" /\ dmn'.pc = "c_state") => EngineTUN \notin ifaces'
    /\ (dmn.pc \in Cleaning \ {"c_state"} /\ dmn'.pc # dmn.pc) => sfile' = sfile
    /\ (dmn.pc = "c_state" /\ dmn'.pc = "off" /\ sfile' # sfile)
         => sfile' = NoFile /\ TornDown' /\ EngineTUN \notin ifaces'

\* C28: a ready daemon starts its cleanup only from the wait loop, on the
\* stop file or a signal; a stop file that is there makes it leave the wait
\* loop; the cleanup restores DNS, deletes the overlay routes, removes the
\* bypass routes, stops the engine and removes the state file, in this
\* order and the state file last, and the daemon then exits.
C28_StopThenOrderedCleanup ==
    /\ [][CleanupStep]_vars
    /\ (dmn.pc = "ready" /\ stop) ~> (dmn.pc # "ready")
    /\ (dmn.pc \in Cleaning) ~> (dmn.pc = "off")

\* The cleanup that followed a stop file has restored DNS and the routes
\* and stopped the engine, and is about to remove the state file.
C28_Witness ==
    /\ dmn.pc = "c_state"
    /\ sfile.kind = "state"
    /\ TornDown
    /\ EngineTUN \notin ifaces
    /\ ~stop
    /\ dis.pc = "poll"


\* C29: from the start of RunDaemon's setup until the wait loop ends, the
\* default route via the detected gateway is in the routing table.
C29_DefaultRouteKept ==
    (rs.pc \notin {"idle", "returned"} /\ rs.undo # "stop")
      => Route("default", OrigGateway) \in rs.table

---------------------------------------------------------------------------
(* C30 *)

StopEntryPoints == {"Stop", "ManagerStop", "disconnectCurrent"}

\* C30: a stop that finds a stale PID file returns without error and
\* leaves no PID file. Violated: with a stale file and no engine of its own
\* IsRunning is false, so Manager.Stop returns "core is not running" and
\* disconnectCurrent skips the stop, and the file stays.
C30_StaleFileClearedByStop ==
    [][(StaleFile /\ sp.pc = "idle" /\ xret' # xret /\ xret'.op \in StopEntryPoints)
         => (xret'.ok /\ pidFile' = NoPid)]_vars

---------------------------------------------------------------------------
(* Properties of the tester's semaphore *)

\* The probes in flight: the goroutines inside TestSingle.
InFlight == {i \in 1..tb.n : tb.g[i] = "test"}

\* C31: at no time are more than workers probes in flight, workers being
\* the configured value, or 10 when that is zero or less.
C31_AtMostWorkersInFlight ==
    tb.pc # "idle" =>
        /\ tb.workers = (IF tb.cfg <= 0 THEN 10 ELSE tb.cfg)
        /\ Cardinality(InFlight) <= tb.workers
        /\ tb.held <= tb.workers

\* C31 witness: every slot is taken by a probe in flight and a further
\* goroutine waits in Acquire.
C31_Witness ==
    /\ tb.pc = "run"
    /\ Cardinality(InFlight) = tb.workers
    /\ \E i \in 1..tb.n : tb.g[i] = "acquire"

\* C31 witness of the default: a batch on a tester configured with zero
\* workers or less has probes in flight.
C31_WitnessDefault ==
    /\ tb.pc = "run" /\ tb.cfg <= 0
    /\ Cardinality(InFlight) = tb.n /\ tb.n >= 2

---------------------------------------------------------------------------
(* Properties of the probe's ports *)

Running == {i \in Probes : hp.probe[i].pc = "running"}

\* C32 as stated: the ports in the configurations of the probe instances
\* running at one time are disjoint from one another and from the ports of
\* a connected main engine.
C32_ProbePortsDisjoint ==
    /\ \A i, j \in Running : i # j => hp.probe[i].ports \cap hp.probe[j].ports = {}
    /\ \A i \in Running : hp.main.on => hp.probe[i].ports \cap hp.main.ports = {}

---------------------------------------------------------------------------
(* Properties of the due query *)

\* C33 as stated: get-due returns exactly the groups with a subscription
\* URL, auto-update on and a next-update time at or before now.
C33_GetDueExact ==
    gq.asked =>
        gq.out = {i \in QueryGroups :
                    /\ gq.g[i].url
                    /\ gq.g[i].auto
                    /\ gq.g[i].next # NullTime
                    /\ InstantOf(gq.g[i].next) <= gq.now}

---------------------------------------------------------------------------
(* Properties of the forced update *)

\* C34 as stated: when ForceUpdateAll has returned, UpdateGroup was called
\* for every group that has a subscription URL, due or not and with
\* auto-update or without.
C34_ForceUpdatesEverySubscription ==
    (due.pc = "done" /\ due.force) =>
        \A i \in GroupIds(db) :
            db.groups[i].url => \E k \in 1..Len(due.called) : due.called[k] = i

---------------------------------------------------------------------------
(* Properties of the UpdateGroup result *)

UpdateSucceeded == last.op = "UpdateGroup" /\ ~last.err

Parsable(uris) == {k \in 1..Len(uris) : Parse(uris[k]).ok}

\* C35: in the result of a successful UpdateGroup totalURIs is the number
\* of decoded URIs, every URI is counted once as added or as failed, errors
\* has one entry per failed URI, every URI that parses is added whatever
\* failed before it (the group being there), and added is the number of
\* from-subscription endpoints the group has after the commit.
C35_ResultCounts ==
    UpdateSucceeded =>
        /\ last.total = Len(last.uris)
        /\ last.added + last.failed = last.total
        /\ last.errors = last.failed
        /\ last.id \in GroupIds(db) => last.added = Cardinality(Parsable(last.uris))
        /\ last.added = Cardinality(SubConfigsOf(db, last.id))

\* C35 witness: a successful update of a feed whose first URI fails and
\* whose second is added.
C35_Witness ==
    /\ UpdateSucceeded
    /\ Len(last.uris) = 2
    /\ ~Parse(last.uris[1]).ok /\ Parse(last.uris[2]).ok
    /\ last.added = 1 /\ last.failed = 1
    /\ Cardinality(SubConfigsOf(db, last.id)) = 1

\* C36 as stated: removed is the number of from-subscription endpoints the
\* update deleted from the group.
C36_RemovedCountsDeleted ==
    UpdateSucceeded => last.removed = Cardinality(last.old)

---------------------------------------------------------------------------
(* Properties of a live tunnel *)

\* The daemon is in its wait loop and its state file is there.
LiveTunnel == dmn.pc = "ready" /\ sfile.kind = "state"

\* C37 as stated: while the daemon is alive with its state file written, a
\* step that is neither Disable's nor the daemon's own leaves the state
\* file, the overlay routes and the DNS override as they are.
C37_LiveTunnelLeftIntact ==
    [][(LiveTunnel /\ dis' = dis /\ dmn' = dmn)
         => (sfile' = sfile /\ routes'.overlay = routes.overlay /\ dns' = dns)]_vars

---------------------------------------------------------------------------
(* Properties of the exit watchers *)

\* A step of the watcher of an engine other than the one the struct holds.
EarlierWatcherStep ==
    \E p \in Pids : /\ p # xw.cmd
                    /\ xw.watcher[p] # "off"
                    /\ xw'.watcher[p] # xw.watcher[p]

\* C38 as stated: the watcher of an earlier engine leaves the running flag
\* and the PID file as a later Start set them, and a Start whose process is
\* alive at its check does not report a startup failure.
C38_WatcherOfEarlierEngineHarmless ==
    [][/\ EarlierWatcherStep => (xw'.running = xw.running /\ xw'.pidFile = xw.pidFile)
       /\ (xw.pc = "sleep" /\ xw'.pc = "idle" /\ xw.cmd \in xw.alive) => xw'.ret.ok]_vars


\* The PID file names a process that is not an engine.
StalePidReused == xw.pidFile \in xw.foreign

\* C39 as stated: IsRunning is true only of an engine a Start launched, and
\* Stop signals no process that is not one.
C39_OnlyTheEngineIsProbedAndSignalled ==
    /\ WIsRunning => (xw.running = 1 \/ xw.pidFile \in xw.alive)
    /\ ~xw.ret.foreign

---------------------------------------------------------------------------
(* Properties of the active-connection row *)

Refused(r, d) == r.err /\ r.db = d

\* With the row present, its config exists and each statement that would
\* delete that config is refused on the rows d.
ActiveRowHolds(d) ==
    d.active # 0 =>
        /\ d.active \in ConfigIds(d)
        /\ Refused(deleteConfig(d, d.active), d)
        /\ \A gid \in GroupIds(d) :
             /\ d.active \in ConfigsOf(d, gid) =>
                  /\ Refused(deleteConfigsByGroup(d, gid, FALSE), d)
                  /\ Refused(deleteGroup(d, gid), d)
             /\ d.active \in SubConfigsOf(d, gid) =>
                  Refused(deleteConfigsByGroup(d, gid, TRUE), d)

\* C40: in every reachable state the active-connection row, when present,
\* names an existing config, and every deletion of that config (delete
\* config, delete by group, group delete with its cascade, the purge of
\* UpdateGroup) fails and leaves the catalog as it was; an UpdateGroup
\* that ended at its purge ended in an error.
C40_ActiveRowProtectsItsConfig ==
    /\ ActiveRowHolds(db)
    /\ (last.op = "UpdateGroup" /\ last.pc = "delete") => last.err

\* An update's purge has been refused for the active config, which is one
\* of the group's subscription configs and is still there.
C40_Witness ==
    /\ db.active \in ConfigIds(db)
    /\ db.configs[db.active].fromSub
    /\ last.op = "UpdateGroup" /\ last.err /\ last.pc = "delete"
    /\ last.id = db.configs[db.active].group

=============================================================================
